---- MODULE Spec2Model ----
(* Customer identity resolution and offer numbering of the Relation API      *)
(* import scripts (import_offers.py, analyze_customer_matches.py).           *)
(*                                                                           *)
(* A Python str is a sequence of one-character strings, so that lower(),     *)
(* strip(), the regular expressions and the f-string formatting are computed *)
(* character by character.                                                   *)
EXTENDS Integers, Sequences, FiniteSets, TLC

\* ---------------------------------------------------------------- bounds
\* Tokens appended to a raw customer name.
MaxTokens == 3
\* Words of a name handed to similarity_score.
MaxScoreWords == 2
\* Customer ids handed out to rows of the customers table in a run.
MaxCustomers == 2
\* Offers of a batch handed to assign_offer_numbers.
MaxOffers == 3
\* Offers read from the spreadsheet in a run of the import.
MaxImportOffers == 2
\* Customer names of the spreadsheet in a run of the report.
MaxExcelNames == 2
\* Rows of the customers table in a run of the report.
MaxDbCustomers == 2
\* Offers of one year in a batch of assign_offer_numbers that passes 999.
MaxVolume == 1001
\* Rows of the offers sheet read by read_excel_offers.
MaxRows == 2
\* Rows of the customers sheet read by read_excel_customers.
MaxCustomerRows == 2

VARIABLES
    pc,                     \* position of the run
    name,                   \* normalize_customer_name: the raw argument
    ntok,                   \* tokens used to build name
    normalized,             \* normalize_customer_name(name)
    renormalized,           \* normalize_customer_name(normalized)
    alias_key,              \* the spreadsheet name the resolver run is about
    customers,              \* rows of the customers table: <<id, name>>
    fetched,                \* rows returned by cur.fetchall() in load_customer_cache
    customer_cache,         \* _customer_cache
    customer_cache_loaded,  \* _customer_cache_loaded
    customer_name,          \* find_customer: the argument of the last call
    found,                  \* find_customer: the value returned by the last call
    name1, name2,           \* similarity_score: the arguments
    score,                  \* similarity_score(name1, name2)
    score_rev,              \* similarity_score(name2, name1)
    offers,                 \* the batch handed to assign_offer_numbers
    now_year,               \* datetime.now().year
    sorted_offers,          \* the list assign_offer_numbers returns
    prev_numbers,           \* tie-break key -> offer_number of the previous call
    dry_run,                \* args.dry_run
    importable,             \* insert_offers: the offers with a customer match
    skipped,                \* insert_offers: the offers it returns
    inserted,               \* rows written by the INSERT of insert_offers
    saved,                  \* rows of skipped_offers.csv
    excel_customers,        \* the names get_excel_customers returns
    db_customers,           \* the list get_db_customers returns
    excel_name,             \* find_best_match: the name of the last call
    best_match, best_score, \* find_best_match: the pair returned by the last call
    exact_matches,          \* the report's three lists
    probable_matches,
    needs_attention,
    clear,                  \* args.clear
    output_sql,             \* args.output_sql is given
    db_offers,              \* rows of the offers table, as committed
    tx_offers,              \* rows of the offers table as the open transaction sees them
    tx_state,               \* the transaction of main: none, open, committed, rolled_back
    sql_inserts,            \* the INSERT statements of the --output-sql file
    year_seqs,              \* assign_offer_numbers: the loop's dict year_sequences
    numbered_count,         \* assign_offer_numbers: offers the loop has numbered
    loop_offer,             \* assign_offer_numbers: the offer of the last pass
    loop_numbers,           \* assign_offer_numbers: the offer numbers written so far
    excel_rows,             \* read_excel_offers: the rows of the sheet
    read_offers,            \* read_excel_offers: the list returned
    customer_rows,          \* read_excel_customers: the rows of the sheet
    read_customers,         \* read_excel_customers: the list returned
    report_keys,            \* analyze_customer_matches.normalize_name of name1, name2
    import_keys             \* import_offers.normalize_customer_name of name1, name2

normVars   == <<name, ntok, normalized, renormalized>>
resVars    == <<alias_key, customers, fetched, customer_cache,
                customer_cache_loaded, customer_name, found>>
scoreVars  == <<name1, name2, score, score_rev>>
assignVars == <<offers, now_year, sorted_offers, prev_numbers>>
txVars     == <<clear, output_sql, db_offers, tx_offers, tx_state, sql_inserts>>
importVars == <<dry_run, importable, skipped, inserted, saved, txVars>>
reportVars == <<excel_customers, db_customers, excel_name, best_match, best_score,
                exact_matches, probable_matches, needs_attention>>
loopVars   == <<year_seqs, numbered_count, loop_offer, loop_numbers>>
readVars   == <<excel_rows, read_offers>>
custVars   == <<customer_rows, read_customers>>
agreeVars  == <<report_keys, import_keys>>
moreVars   == <<loopVars, readVars, custVars, agreeVars>>
vars       == <<pc, normVars, resVars, scoreVars, assignVars, importVars, reportVars,
                moreVars>>

\* ------------------------------------------------------------ Python str
\* None, where a str is expected.
None == <<"None">>

\* str.isspace, the characters str.strip() and str.split() take for
\* whitespace, and the regular expression class \s of a str pattern: the
\* Unicode whitespace characters.  Written here are U+0009..U+000D,
\* U+001C..U+001F, U+0020, U+0085, U+00A0 and U+1680; U+2000..U+200A, U+2028,
\* U+2029, U+202F, U+205F and U+3000 are whitespace to Python as well, and
\* cannot be written in a string of this module.
IsSpace(c) == c \in {" ", "\t", "\n", "\r", "\f",
                     "", "", "", "", "", "", " ", " "}

\* The characters a string of this module can hold are U+0001..U+00FF
\* but the grave accent U+0060 and,
\* beyond them, the characters whose code point ends in a byte of 0x80..0xFF
\* (U+0180..U+01FF, U+0380..U+03FF, ...).  The tables below give Python's
\* properties (Unicode 14.0.0) of every character among them that has one.

\* c.lower() for every character that is not its own lower case: <<c, c.lower()>>.
LowerPairs == <<
    <<"A", "a">>, <<"B", "b">>, <<"C", "c">>, <<"D", "d">>, <<"E", "e">>, <<"F", "f">>, <<"G", "g">>, <<"H", "h">>,
    <<"I", "i">>, <<"J", "j">>, <<"K", "k">>, <<"L", "l">>, <<"M", "m">>, <<"N", "n">>, <<"O", "o">>, <<"P", "p">>,
    <<"Q", "q">>, <<"R", "r">>, <<"S", "s">>, <<"T", "t">>, <<"U", "u">>, <<"V", "v">>, <<"W", "w">>, <<"X", "x">>,
    <<"Y", "y">>, <<"Z", "z">>, <<"À", "à">>, <<"Á", "á">>, <<"Â", "â">>, <<"Ã", "ã">>, <<"Ä", "ä">>, <<"Å", "å">>,
    <<"Æ", "æ">>, <<"Ç", "ç">>, <<"È", "è">>, <<"É", "é">>, <<"Ê", "ê">>, <<"Ë", "ë">>, <<"Ì", "ì">>, <<"Í", "í">>,
    <<"Î", "î">>, <<"Ï", "ï">>, <<"Ð", "ð">>, <<"Ñ", "ñ">>, <<"Ò", "ò">>, <<"Ó", "ó">>, <<"Ô", "ô">>, <<"Õ", "õ">>,
    <<"Ö", "ö">>, <<"Ø", "ø">>, <<"Ù", "ù">>, <<"Ú", "ú">>, <<"Û", "û">>, <<"Ü", "ü">>, <<"Ý", "ý">>, <<"Þ", "þ">>,
    <<"Ƃ", "ƃ">>, <<"Ƅ", "ƅ">>, <<"Ƈ", "ƈ">>, <<"Ƌ", "ƌ">>, <<"Ǝ", "ǝ">>, <<"Ƒ", "ƒ">>, <<"Ƙ", "ƙ">>, <<"Ơ", "ơ">>,
    <<"Ƣ", "ƣ">>, <<"Ƥ", "ƥ">>, <<"Ʀ", "ʀ">>, <<"Ƨ", "ƨ">>, <<"Ʃ", "ʃ">>, <<"Ƭ", "ƭ">>, <<"Ʈ", "ʈ">>, <<"Ư", "ư">>,
    <<"Ʊ", "ʊ">>, <<"Ʋ", "ʋ">>, <<"Ƴ", "ƴ">>, <<"Ƶ", "ƶ">>, <<"Ʒ", "ʒ">>, <<"Ƹ", "ƹ">>, <<"Ƽ", "ƽ">>, <<"Ǆ", "ǆ">>,
    <<"ǅ", "ǆ">>, <<"Ǉ", "ǉ">>, <<"ǈ", "ǉ">>, <<"Ǌ", "ǌ">>, <<"ǋ", "ǌ">>, <<"Ǎ", "ǎ">>, <<"Ǐ", "ǐ">>, <<"Ǒ", "ǒ">>,
    <<"Ǔ", "ǔ">>, <<"Ǖ", "ǖ">>, <<"Ǘ", "ǘ">>, <<"Ǚ", "ǚ">>, <<"Ǜ", "ǜ">>, <<"Ǟ", "ǟ">>, <<"Ǡ", "ǡ">>, <<"Ǣ", "ǣ">>,
    <<"Ǥ", "ǥ">>, <<"Ǧ", "ǧ">>, <<"Ǩ", "ǩ">>, <<"Ǫ", "ǫ">>, <<"Ǭ", "ǭ">>, <<"Ǯ", "ǯ">>, <<"Ǳ", "ǳ">>, <<"ǲ", "ǳ">>,
    <<"Ǵ", "ǵ">>, <<"Ƕ", "ƕ">>, <<"Ƿ", "ƿ">>, <<"Ǹ", "ǹ">>, <<"Ǻ", "ǻ">>, <<"Ǽ", "ǽ">>, <<"Ǿ", "ǿ">>, <<"Ά", "ά">>,
    <<"Έ", "έ">>, <<"Ή", "ή">>, <<"Ί", "ί">>, <<"Ό", "ό">>, <<"Ύ", "ύ">>, <<"Ώ", "ώ">>, <<"Α", "α">>, <<"Β", "β">>,
    <<"Γ", "γ">>, <<"Δ", "δ">>, <<"Ε", "ε">>, <<"Ζ", "ζ">>, <<"Η", "η">>, <<"Θ", "θ">>, <<"Ι", "ι">>, <<"Κ", "κ">>,
    <<"Λ", "λ">>, <<"Μ", "μ">>, <<"Ν", "ν">>, <<"Ξ", "ξ">>, <<"Ο", "ο">>, <<"Π", "π">>, <<"Ρ", "ρ">>, <<"Σ", "σ">>,
    <<"Τ", "τ">>, <<"Υ", "υ">>, <<"Φ", "φ">>, <<"Χ", "χ">>, <<"Ψ", "ψ">>, <<"Ω", "ω">>, <<"Ϊ", "ϊ">>, <<"Ϋ", "ϋ">>,
    <<"Ϗ", "ϗ">>, <<"Ϙ", "ϙ">>, <<"Ϛ", "ϛ">>, <<"Ϝ", "ϝ">>, <<"Ϟ", "ϟ">>, <<"Ϡ", "ϡ">>, <<"Ϣ", "ϣ">>, <<"Ϥ", "ϥ">>,
    <<"Ϧ", "ϧ">>, <<"Ϩ", "ϩ">>, <<"Ϫ", "ϫ">>, <<"Ϭ", "ϭ">>, <<"Ϯ", "ϯ">>, <<"ϴ", "θ">>, <<"Ϸ", "ϸ">>, <<"Ϲ", "ϲ">>,
    <<"Ϻ", "ϻ">>, <<"Ҁ", "ҁ">>, <<"Ҋ", "ҋ">>, <<"Ҍ", "ҍ">>, <<"Ҏ", "ҏ">>, <<"Ґ", "ґ">>, <<"Ғ", "ғ">>, <<"Ҕ", "ҕ">>,
    <<"Җ", "җ">>, <<"Ҙ", "ҙ">>, <<"Қ", "қ">>, <<"Ҝ", "ҝ">>, <<"Ҟ", "ҟ">>, <<"Ҡ", "ҡ">>, <<"Ң", "ң">>, <<"Ҥ", "ҥ">>,
    <<"Ҧ", "ҧ">>, <<"Ҩ", "ҩ">>, <<"Ҫ", "ҫ">>, <<"Ҭ", "ҭ">>, <<"Ү", "ү">>, <<"Ұ", "ұ">>, <<"Ҳ", "ҳ">>, <<"Ҵ", "ҵ">>,
    <<"Ҷ", "ҷ">>, <<"Ҹ", "ҹ">>, <<"Һ", "һ">>, <<"Ҽ", "ҽ">>, <<"Ҿ", "ҿ">>, <<"Ӏ", "ӏ">>, <<"Ӂ", "ӂ">>, <<"Ӄ", "ӄ">>,
    <<"Ӆ", "ӆ">>, <<"Ӈ", "ӈ">>, <<"Ӊ", "ӊ">>, <<"Ӌ", "ӌ">>, <<"Ӎ", "ӎ">>, <<"Ӑ", "ӑ">>, <<"Ӓ", "ӓ">>, <<"Ӕ", "ӕ">>,
    <<"Ӗ", "ӗ">>, <<"Ә", "ә">>, <<"Ӛ", "ӛ">>, <<"Ӝ", "ӝ">>, <<"Ӟ", "ӟ">>, <<"Ӡ", "ӡ">>, <<"Ӣ", "ӣ">>, <<"Ӥ", "ӥ">>,
    <<"Ӧ", "ӧ">>, <<"Ө", "ө">>, <<"Ӫ", "ӫ">>, <<"Ӭ", "ӭ">>, <<"Ӯ", "ӯ">>, <<"Ӱ", "ӱ">>, <<"Ӳ", "ӳ">>, <<"Ӵ", "ӵ">>,
    <<"Ӷ", "ӷ">>, <<"Ӹ", "ӹ">>, <<"Ӻ", "ӻ">>, <<"Ӽ", "ӽ">>, <<"Ӿ", "ӿ">>, <<"Ꮀ", "ꮀ">>, <<"Ꮁ", "ꮁ">>, <<"Ꮂ", "ꮂ">>,
    <<"Ꮃ", "ꮃ">>, <<"Ꮄ", "ꮄ">>, <<"Ꮅ", "ꮅ">>, <<"Ꮆ", "ꮆ">>, <<"Ꮇ", "ꮇ">>, <<"Ꮈ", "ꮈ">>, <<"Ꮉ", "ꮉ">>, <<"Ꮊ", "ꮊ">>,
    <<"Ꮋ", "ꮋ">>, <<"Ꮌ", "ꮌ">>, <<"Ꮍ", "ꮍ">>, <<"Ꮎ", "ꮎ">>, <<"Ꮏ", "ꮏ">>, <<"Ꮐ", "ꮐ">>, <<"Ꮑ", "ꮑ">>, <<"Ꮒ", "ꮒ">>,
    <<"Ꮓ", "ꮓ">>, <<"Ꮔ", "ꮔ">>, <<"Ꮕ", "ꮕ">>, <<"Ꮖ", "ꮖ">>, <<"Ꮗ", "ꮗ">>, <<"Ꮘ", "ꮘ">>, <<"Ꮙ", "ꮙ">>, <<"Ꮚ", "ꮚ">>,
    <<"Ꮛ", "ꮛ">>, <<"Ꮜ", "ꮜ">>, <<"Ꮝ", "ꮝ">>, <<"Ꮞ", "ꮞ">>, <<"Ꮟ", "ꮟ">>, <<"Ꮠ", "ꮠ">>, <<"Ꮡ", "ꮡ">>, <<"Ꮢ", "ꮢ">>,
    <<"Ꮣ", "ꮣ">>, <<"Ꮤ", "ꮤ">>, <<"Ꮥ", "ꮥ">>, <<"Ꮦ", "ꮦ">>, <<"Ꮧ", "ꮧ">>, <<"Ꮨ", "ꮨ">>, <<"Ꮩ", "ꮩ">>, <<"Ꮪ", "ꮪ">>,
    <<"Ꮫ", "ꮫ">>, <<"Ꮬ", "ꮬ">>, <<"Ꮭ", "ꮭ">>, <<"Ꮮ", "ꮮ">>, <<"Ꮯ", "ꮯ">>, <<"Ꮰ", "ꮰ">>, <<"Ꮱ", "ꮱ">>, <<"Ꮲ", "ꮲ">>,
    <<"Ꮳ", "ꮳ">>, <<"Ꮴ", "ꮴ">>, <<"Ꮵ", "ꮵ">>, <<"Ꮶ", "ꮶ">>, <<"Ꮷ", "ꮷ">>, <<"Ꮸ", "ꮸ">>, <<"Ꮹ", "ꮹ">>, <<"Ꮺ", "ꮺ">>,
    <<"Ꮻ", "ꮻ">>, <<"Ꮼ", "ꮼ">>, <<"Ꮽ", "ꮽ">>, <<"Ꮾ", "ꮾ">>, <<"Ꮿ", "ꮿ">>, <<"Ᏸ", "ᏸ">>, <<"Ᏹ", "ᏹ">>, <<"Ᏺ", "ᏺ">>,
    <<"Ᏻ", "ᏻ">>, <<"Ᏼ", "ᏼ">>, <<"Ᏽ", "ᏽ">>, <<"Ა", "ა">>, <<"Ბ", "ბ">>, <<"Გ", "გ">>, <<"Დ", "დ">>, <<"Ე", "ე">>,
    <<"Ვ", "ვ">>, <<"Ზ", "ზ">>, <<"Თ", "თ">>, <<"Ი", "ი">>, <<"Კ", "კ">>, <<"Ლ", "ლ">>, <<"Მ", "მ">>, <<"Ნ", "ნ">>,
    <<"Ო", "ო">>, <<"Პ", "პ">>, <<"Ჟ", "ჟ">>, <<"Რ", "რ">>, <<"Ს", "ს">>, <<"Ტ", "ტ">>, <<"Უ", "უ">>, <<"Ფ", "ფ">>,
    <<"Ქ", "ქ">>, <<"Ღ", "ღ">>, <<"Ყ", "ყ">>, <<"Შ", "შ">>, <<"Ჩ", "ჩ">>, <<"Ც", "ც">>, <<"Ძ", "ძ">>, <<"Წ", "წ">>,
    <<"Ჭ", "ჭ">>, <<"Ხ", "ხ">>, <<"Ჯ", "ჯ">>, <<"Ჰ", "ჰ">>, <<"Ჱ", "ჱ">>, <<"Ჲ", "ჲ">>, <<"Ჳ", "ჳ">>, <<"Ჴ", "ჴ">>,
    <<"Ჵ", "ჵ">>, <<"Ჶ", "ჶ">>, <<"Ჷ", "ჷ">>, <<"Ჸ", "ჸ">>, <<"Ჹ", "ჹ">>, <<"Ჺ", "ჺ">>, <<"Ჽ", "ჽ">>, <<"Ჾ", "ჾ">>,
    <<"Ჿ", "ჿ">>, <<"Ẁ", "ẁ">>, <<"Ẃ", "ẃ">>, <<"Ẅ", "ẅ">>, <<"Ẇ", "ẇ">>, <<"Ẉ", "ẉ">>, <<"Ẋ", "ẋ">>, <<"Ẍ", "ẍ">>,
    <<"Ẏ", "ẏ">>, <<"Ẑ", "ẑ">>, <<"Ẓ", "ẓ">>, <<"Ẕ", "ẕ">>, <<"ẞ", "ß">>, <<"Ạ", "ạ">>, <<"Ả", "ả">>, <<"Ấ", "ấ">>,
    <<"Ầ", "ầ">>, <<"Ẩ", "ẩ">>, <<"Ẫ", "ẫ">>, <<"Ậ", "ậ">>, <<"Ắ", "ắ">>, <<"Ằ", "ằ">>, <<"Ẳ", "ẳ">>, <<"Ẵ", "ẵ">>,
    <<"Ặ", "ặ">>, <<"Ẹ", "ẹ">>, <<"Ẻ", "ẻ">>, <<"Ẽ", "ẽ">>, <<"Ế", "ế">>, <<"Ề", "ề">>, <<"Ể", "ể">>, <<"Ễ", "ễ">>,
    <<"Ệ", "ệ">>, <<"Ỉ", "ỉ">>, <<"Ị", "ị">>, <<"Ọ", "ọ">>, <<"Ỏ", "ỏ">>, <<"Ố", "ố">>, <<"Ồ", "ồ">>, <<"Ổ", "ổ">>,
    <<"Ỗ", "ỗ">>, <<"Ộ", "ộ">>, <<"Ớ", "ớ">>, <<"Ờ", "ờ">>, <<"Ở", "ở">>, <<"Ỡ", "ỡ">>, <<"Ợ", "ợ">>, <<"Ụ", "ụ">>,
    <<"Ủ", "ủ">>, <<"Ứ", "ứ">>, <<"Ừ", "ừ">>, <<"Ử", "ử">>, <<"Ữ", "ữ">>, <<"Ự", "ự">>, <<"Ỳ", "ỳ">>, <<"Ỵ", "ỵ">>,
    <<"Ỷ", "ỷ">>, <<"Ỹ", "ỹ">>, <<"Ỻ", "ỻ">>, <<"Ỽ", "ỽ">>, <<"Ỿ", "ỿ">>, <<"ᾈ", "ᾀ">>, <<"ᾉ", "ᾁ">>, <<"ᾊ", "ᾂ">>,
    <<"ᾋ", "ᾃ">>, <<"ᾌ", "ᾄ">>, <<"ᾍ", "ᾅ">>, <<"ᾎ", "ᾆ">>, <<"ᾏ", "ᾇ">>, <<"ᾘ", "ᾐ">>, <<"ᾙ", "ᾑ">>, <<"ᾚ", "ᾒ">>,
    <<"ᾛ", "ᾓ">>, <<"ᾜ", "ᾔ">>, <<"ᾝ", "ᾕ">>, <<"ᾞ", "ᾖ">>, <<"ᾟ", "ᾗ">>, <<"ᾨ", "ᾠ">>, <<"ᾩ", "ᾡ">>, <<"ᾪ", "ᾢ">>,
    <<"ᾫ", "ᾣ">>, <<"ᾬ", "ᾤ">>, <<"ᾭ", "ᾥ">>, <<"ᾮ", "ᾦ">>, <<"ᾯ", "ᾧ">>, <<"Ᾰ", "ᾰ">>, <<"Ᾱ", "ᾱ">>, <<"ᾼ", "ᾳ">>,
    <<"ῌ", "ῃ">>, <<"Ῐ", "ῐ">>, <<"Ῑ", "ῑ">>, <<"Ῠ", "ῠ">>, <<"Ῡ", "ῡ">>, <<"Ῥ", "ῥ">>, <<"ῼ", "ῳ">>, <<"Ↄ", "ↄ">>,
    <<"Ⓐ", "ⓐ">>, <<"Ⓑ", "ⓑ">>, <<"Ⓒ", "ⓒ">>, <<"Ⓓ", "ⓓ">>, <<"Ⓔ", "ⓔ">>, <<"Ⓕ", "ⓕ">>, <<"Ⓖ", "ⓖ">>, <<"Ⓗ", "ⓗ">>,
    <<"Ⓘ", "ⓘ">>, <<"Ⓙ", "ⓙ">>, <<"Ⓚ", "ⓚ">>, <<"Ⓛ", "ⓛ">>, <<"Ⓜ", "ⓜ">>, <<"Ⓝ", "ⓝ">>, <<"Ⓞ", "ⓞ">>, <<"Ⓟ", "ⓟ">>,
    <<"Ⓠ", "ⓠ">>, <<"Ⓡ", "ⓡ">>, <<"Ⓢ", "ⓢ">>, <<"Ⓣ", "ⓣ">>, <<"Ⓤ", "ⓤ">>, <<"Ⓥ", "ⓥ">>, <<"Ⓦ", "ⓦ">>, <<"Ⓧ", "ⓧ">>,
    <<"Ⓨ", "ⓨ">>, <<"Ⓩ", "ⓩ">>, <<"Ⲁ", "ⲁ">>, <<"Ⲃ", "ⲃ">>, <<"Ⲅ", "ⲅ">>, <<"Ⲇ", "ⲇ">>, <<"Ⲉ", "ⲉ">>, <<"Ⲋ", "ⲋ">>,
    <<"Ⲍ", "ⲍ">>, <<"Ⲏ", "ⲏ">>, <<"Ⲑ", "ⲑ">>, <<"Ⲓ", "ⲓ">>, <<"Ⲕ", "ⲕ">>, <<"Ⲗ", "ⲗ">>, <<"Ⲙ", "ⲙ">>, <<"Ⲛ", "ⲛ">>,
    <<"Ⲝ", "ⲝ">>, <<"Ⲟ", "ⲟ">>, <<"Ⲡ", "ⲡ">>, <<"Ⲣ", "ⲣ">>, <<"Ⲥ", "ⲥ">>, <<"Ⲧ", "ⲧ">>, <<"Ⲩ", "ⲩ">>, <<"Ⲫ", "ⲫ">>,
    <<"Ⲭ", "ⲭ">>, <<"Ⲯ", "ⲯ">>, <<"Ⲱ", "ⲱ">>, <<"Ⲳ", "ⲳ">>, <<"Ⲵ", "ⲵ">>, <<"Ⲷ", "ⲷ">>, <<"Ⲹ", "ⲹ">>, <<"Ⲻ", "ⲻ">>,
    <<"Ⲽ", "ⲽ">>, <<"Ⲿ", "ⲿ">>, <<"Ⳁ", "ⳁ">>, <<"Ⳃ", "ⳃ">>, <<"Ⳅ", "ⳅ">>, <<"Ⳇ", "ⳇ">>, <<"Ⳉ", "ⳉ">>, <<"Ⳋ", "ⳋ">>,
    <<"Ⳍ", "ⳍ">>, <<"Ⳏ", "ⳏ">>, <<"Ⳑ", "ⳑ">>, <<"Ⳓ", "ⳓ">>, <<"Ⳕ", "ⳕ">>, <<"Ⳗ", "ⳗ">>, <<"Ⳙ", "ⳙ">>, <<"Ⳛ", "ⳛ">>,
    <<"Ⳝ", "ⳝ">>, <<"Ⳟ", "ⳟ">>, <<"Ⳡ", "ⳡ">>, <<"Ⳣ", "ⳣ">>, <<"Ⳬ", "ⳬ">>, <<"Ⳮ", "ⳮ">>, <<"Ⳳ", "ⳳ">>, <<"Ꚁ", "ꚁ">>,
    <<"Ꚃ", "ꚃ">>, <<"Ꚅ", "ꚅ">>, <<"Ꚇ", "ꚇ">>, <<"Ꚉ", "ꚉ">>, <<"Ꚋ", "ꚋ">>, <<"Ꚍ", "ꚍ">>, <<"Ꚏ", "ꚏ">>, <<"Ꚑ", "ꚑ">>,
    <<"Ꚓ", "ꚓ">>, <<"Ꚕ", "ꚕ">>, <<"Ꚗ", "ꚗ">>, <<"Ꚙ", "ꚙ">>, <<"Ꚛ", "ꚛ">>, <<"Ꞁ", "ꞁ">>, <<"Ꞃ", "ꞃ">>, <<"Ꞅ", "ꞅ">>,
    <<"Ꞇ", "ꞇ">>, <<"Ꞌ", "ꞌ">>, <<"Ꞑ", "ꞑ">>, <<"Ꞓ", "ꞓ">>, <<"Ꞗ", "ꞗ">>, <<"Ꞙ", "ꞙ">>, <<"Ꞛ", "ꞛ">>, <<"Ꞝ", "ꞝ">>,
    <<"Ꞟ", "ꞟ">>, <<"Ꞡ", "ꞡ">>, <<"Ꞣ", "ꞣ">>, <<"Ꞥ", "ꞥ">>, <<"Ꞧ", "ꞧ">>, <<"Ꞩ", "ꞩ">>, <<"Ʞ", "ʞ">>, <<"Ʇ", "ʇ">>,
    <<"Ʝ", "ʝ">>, <<"Ꞵ", "ꞵ">>, <<"Ꞷ", "ꞷ">>, <<"Ꞹ", "ꞹ">>, <<"Ꞻ", "ꞻ">>, <<"Ꞽ", "ꞽ">>, <<"Ꞿ", "ꞿ">>, <<"Ꟁ", "ꟁ">>,
    <<"Ꟃ", "ꟃ">>, <<"Ꞔ", "ꞔ">>, <<"Ʂ", "ʂ">>, <<"Ᶎ", "ᶎ">>, <<"Ꟈ", "ꟈ">>, <<"Ꟊ", "ꟊ">>, <<"Ꟑ", "ꟑ">>, <<"Ꟗ", "ꟗ">>,
    <<"Ꟙ", "ꟙ">>, <<"Ꟶ", "ꟶ">> >>

\* The capitals whose lower case cannot be written in a string of this
\* module (U+0181 has U+0253, ...).
LowerUnwritable == {
    "Ɓ", "Ɔ", "Ɖ", "Ɗ", "Ə", "Ɛ", "Ɠ", "Ɣ", "Ɩ", "Ɨ", "Ɯ", "Ɲ", "Ɵ", "Ͻ", "Ͼ", "Ͽ",
    "Ⴀ", "Ⴁ", "Ⴂ", "Ⴃ", "Ⴄ", "Ⴅ", "Ⴆ", "Ⴇ", "Ⴈ", "Ⴉ", "Ⴊ", "Ⴋ", "Ⴌ", "Ⴍ", "Ⴎ", "Ⴏ",
    "Ⴐ", "Ⴑ", "Ⴒ", "Ⴓ", "Ⴔ", "Ⴕ", "Ⴖ", "Ⴗ", "Ⴘ", "Ⴙ", "Ⴚ", "Ⴛ", "Ⴜ", "Ⴝ", "Ⴞ", "Ⴟ",
    "Ⴠ", "Ⴡ", "Ⴢ", "Ⴣ", "Ⴤ", "Ⴥ", "Ⴧ", "Ⴭ", "Ꭰ", "Ꭱ", "Ꭲ", "Ꭳ", "Ꭴ", "Ꭵ", "Ꭶ", "Ꭷ",
    "Ꭸ", "Ꭹ", "Ꭺ", "Ꭻ", "Ꭼ", "Ꭽ", "Ꭾ", "Ꭿ", "Ὰ", "Ά", "Ὲ", "Έ", "Ὴ", "Ή", "Ὶ", "Ί",
    "Ὺ", "Ύ", "Ὸ", "Ό", "Ὼ", "Ώ", "Ɥ", "Ɦ", "Ɜ", "Ɡ", "Ɬ", "Ɪ", "Ꭓ" }

\* The characters with the property Case_Ignorable: str.lower() passes over
\* them when it looks for the letters around a capital sigma.
CaseIgnorable == {
    "'", ".", ":", "^", "¨", "­", "¯", "´", "·", "¸", "ʰ", "ʱ", "ʲ", "ʳ", "ʴ", "ʵ",
    "ʶ", "ʷ", "ʸ", "ʹ", "ʺ", "ʻ", "ʼ", "ʽ", "ʾ", "ʿ", "ˀ", "ˁ", "˂", "˃", "˄", "˅",
    "ˆ", "ˇ", "ˈ", "ˉ", "ˊ", "ˋ", "ˌ", "ˍ", "ˎ", "ˏ", "ː", "ˑ", "˒", "˓", "˔", "˕",
    "˖", "˗", "˘", "˙", "˚", "˛", "˜", "˝", "˞", "˟", "ˠ", "ˡ", "ˢ", "ˣ", "ˤ", "˥",
    "˦", "˧", "˨", "˩", "˪", "˫", "ˬ", "˭", "ˮ", "˯", "˰", "˱", "˲", "˳", "˴", "˵",
    "˶", "˷", "˸", "˹", "˺", "˻", "˼", "˽", "˾", "˿", "΄", "΅", "·", "҃", "҄", "҅",
    "҆", "҇", "҈", "҉", "֑", "֒", "֓", "֔", "֕", "֖", "֗", "֘", "֙", "֚", "֛", "֜",
    "֝", "֞", "֟", "֠", "֡", "֢", "֣", "֤", "֥", "֦", "֧", "֨", "֩", "֪", "֫", "֬",
    "֭", "֮", "֯", "ְ", "ֱ", "ֲ", "ֳ", "ִ", "ֵ", "ֶ", "ַ", "ָ", "ֹ", "ֺ", "ֻ", "ּ",
    "ֽ", "ֿ", "ׁ", "ׂ", "ׄ", "ׅ", "ׇ", "״", "ۖ", "ۗ", "ۘ", "ۙ", "ۚ", "ۛ", "ۜ", "۝",
    "۟", "۠", "ۡ", "ۢ", "ۣ", "ۤ", "ۥ", "ۦ", "ۧ", "ۨ", "۪", "۫", "۬", "ۭ", "ަ", "ާ",
    "ި", "ީ", "ު", "ޫ", "ެ", "ޭ", "ޮ", "ޯ", "ް", "߫", "߬", "߭", "߮", "߯", "߰", "߱",
    "߲", "߳", "ߴ", "ߵ", "ߺ", "߽", "࢈", "࢐", "࢑", "࢘", "࢙", "࢚", "࢛", "࢜", "࢝", "࢞",
    "࢟", "ࣉ", "࣊", "࣋", "࣌", "࣍", "࣎", "࣏", "࣐", "࣑", "࣒", "࣓", "ࣔ", "ࣕ", "ࣖ", "ࣗ",
    "ࣘ", "ࣙ", "ࣚ", "ࣛ", "ࣜ", "ࣝ", "ࣞ", "ࣟ", "࣠", "࣡", "࣢", "ࣣ", "ࣤ", "ࣥ", "ࣦ", "ࣧ",
    "ࣨ", "ࣩ", "࣪", "࣫", "࣬", "࣭", "࣮", "࣯", "ࣰ", "ࣱ", "ࣲ", "ࣳ", "ࣴ", "ࣵ", "ࣶ", "ࣷ",
    "ࣸ", "ࣹ", "ࣺ", "ࣻ", "ࣼ", "ࣽ", "ࣾ", "ࣿ", "ঁ", "়", "ু", "ূ", "ৃ", "ৄ", "্", "ৢ",
    "ৣ", "৾", "ઁ", "ં", "઼", "ુ", "ૂ", "ૃ", "ૄ", "ૅ", "ે", "ૈ", "્", "ૢ", "ૣ", "ૺ",
    "ૻ", "ૼ", "૽", "૾", "૿", "ஂ", "ீ", "்", "ಁ", "಼", "ಿ", "ೆ", "ೌ", "್", "ೢ", "ೣ",
    "ඁ", "්", "ි", "ී", "ු", "ූ", "ັ", "ິ", "ີ", "ຶ", "ື", "ຸ", "ູ", "຺", "ົ", "ຼ",
    "ໆ", "່", "້", "໊", "໋", "໌", "ໍ", "ྀ", "ཱྀ", "ྂ", "ྃ", "྄", "྆", "྇", "ྍ", "ྎ",
    "ྏ", "ྐ", "ྑ", "ྒ", "ྒྷ", "ྔ", "ྕ", "ྖ", "ྗ", "ྙ", "ྚ", "ྛ", "ྜ", "ྜྷ", "ྞ", "ྟ",
    "ྠ", "ྡ", "ྡྷ", "ྣ", "ྤ", "ྥ", "ྦ", "ྦྷ", "ྨ", "ྩ", "ྪ", "ྫ", "ྫྷ", "ྭ", "ྮ", "ྯ",
    "ྰ", "ྱ", "ྲ", "ླ", "ྴ", "ྵ", "ྶ", "ྷ", "ྸ", "ྐྵ", "ྺ", "ྻ", "ྼ", "࿆", "ႂ", "ႅ",
    "ႆ", "ႍ", "ႝ", "ჼ", "឴", "឵", "ិ", "ី", "ឹ", "ឺ", "ុ", "ូ", "ួ", "ំ", "៉", "៊",
    "់", "៌", "៍", "៎", "៏", "័", "៑", "្", "៓", "ៗ", "៝", "ᢅ", "ᢆ", "ᢩ", "ᪧ", "᪰",
    "᪱", "᪲", "᪳", "᪴", "᪵", "᪶", "᪷", "᪸", "᪹", "᪺", "᪻", "᪼", "᪽", "᪾", "ᪿ", "ᫀ",
    "᫁", "᫂", "᫃", "᫄", "᫅", "᫆", "᫇", "᫈", "᫉", "᫊", "᫋", "ᫌ", "ᫍ", "ᫎ", "ᮀ", "ᮁ",
    "ᮢ", "ᮣ", "ᮤ", "ᮥ", "ᮨ", "ᮩ", "᮫", "ᮬ", "ᮭ", "᯦", "ᯨ", "ᯩ", "ᯭ", "ᯯ", "ᯰ", "ᯱ",
    "᳐", "᳑", "᳒", "᳔", "᳕", "᳖", "᳗", "᳘", "᳙", "᳚", "᳛", "᳜", "᳝", "᳞", "᳟", "᳠",
    "᳢", "᳣", "᳤", "᳥", "᳦", "᳧", "᳨", "᳭", "᳴", "᳸", "᳹", "ᶛ", "ᶜ", "ᶝ", "ᶞ", "ᶟ",
    "ᶠ", "ᶡ", "ᶢ", "ᶣ", "ᶤ", "ᶥ", "ᶦ", "ᶧ", "ᶨ", "ᶩ", "ᶪ", "ᶫ", "ᶬ", "ᶭ", "ᶮ", "ᶯ",
    "ᶰ", "ᶱ", "ᶲ", "ᶳ", "ᶴ", "ᶵ", "ᶶ", "ᶷ", "ᶸ", "ᶹ", "ᶺ", "ᶻ", "ᶼ", "ᶽ", "ᶾ", "ᶿ",
    "᷀", "᷁", "᷂", "᷃", "᷄", "᷅", "᷆", "᷇", "᷈", "᷉", "᷊", "᷋", "᷌", "᷍", "᷎", "᷏",
    "᷐", "᷑", "᷒", "ᷓ", "ᷔ", "ᷕ", "ᷖ", "ᷗ", "ᷘ", "ᷙ", "ᷚ", "ᷛ", "ᷜ", "ᷝ", "ᷞ", "ᷟ",
    "ᷠ", "ᷡ", "ᷢ", "ᷣ", "ᷤ", "ᷥ", "ᷦ", "ᷧ", "ᷨ", "ᷩ", "ᷪ", "ᷫ", "ᷬ", "ᷭ", "ᷮ", "ᷯ",
    "ᷰ", "ᷱ", "ᷲ", "ᷳ", "ᷴ", "᷵", "᷶", "᷷", "᷸", "᷹", "᷺", "᷻", "᷼", "᷽", "᷾", "᷿",
    "᾽", "᾿", "῀", "῁", "῍", "῎", "῏", "῝", "῞", "῟", "῭", "΅", "`", "´", "῾", "ₐ",
    "ₑ", "ₒ", "ₓ", "ₔ", "ₕ", "ₖ", "ₗ", "ₘ", "ₙ", "ₚ", "ₛ", "ₜ", "⃐", "⃑", "⃒", "⃓",
    "⃔", "⃕", "⃖", "⃗", "⃘", "⃙", "⃚", "⃛", "⃜", "⃝", "⃞", "⃟", "⃠", "⃡", "⃢", "⃣",
    "⃤", "⃥", "⃦", "⃧", "⃨", "⃩", "⃪", "⃫", "⃬", "⃭", "⃮", "⃯", "⃰", "⳯", "⳰", "⳱",
    "ⷠ", "ⷡ", "ⷢ", "ⷣ", "ⷤ", "ⷥ", "ⷦ", "ⷧ", "ⷨ", "ⷩ", "ⷪ", "ⷫ", "ⷬ", "ⷭ", "ⷮ", "ⷯ",
    "ⷰ", "ⷱ", "ⷲ", "ⷳ", "ⷴ", "ⷵ", "ⷶ", "ⷷ", "ⷸ", "ⷹ", "ⷺ", "ⷻ", "ⷼ", "ⷽ", "ⷾ", "ⷿ",
    "゙", "゚", "゛", "゜", "ゝ", "ゞ", "ー", "ヽ", "ヾ", "ꓸ", "ꓹ", "ꓺ", "ꓻ", "ꓼ", "ꓽ", "ꚜ",
    "ꚝ", "ꚞ", "ꚟ", "꛰", "꛱", "ꞈ", "꞉", "꞊", "ꟲ", "ꟳ", "ꟴ", "ꟸ", "ꟹ", "꣄", "ꣅ", "꣠",
    "꣡", "꣢", "꣣", "꣤", "꣥", "꣦", "꣧", "꣨", "꣩", "꣪", "꣫", "꣬", "꣭", "꣮", "꣯", "꣰",
    "꣱", "ꣿ", "ꦀ", "ꦁ", "ꦂ", "꦳", "ꦶ", "ꦷ", "ꦸ", "ꦹ", "ꦼ", "ꦽ", "ꧏ", "ꧥ", "ꧦ", "ꪰ",
    "ꪲ", "ꪳ", "ꪴ", "ꪷ", "ꪸ", "ꪾ", "꪿", "꫁", "ꫝ", "ꫬ", "ꫭ", "ꫳ", "ꫴ", "꫶", "ꯥ", "ꯨ",
    "꯭", "﮲", "﮳", "﮴", "﮵", "﮶", "﮷", "﮸", "﮹", "﮺", "﮻", "﮼", "﮽", "﮾", "﮿", "﯀",
    "﯁", "﯂", "﻿", "ﾞ", "ﾟ", "￣", "￹", "￺", "￻" }

\* The characters with the property Cased that are not Case_Ignorable.
CasedLetters == {
    "A", "B", "C", "D", "E", "F", "G", "H", "I", "J", "K", "L", "M", "N", "O", "P",
    "Q", "R", "S", "T", "U", "V", "W", "X", "Y", "Z", "a", "b", "c", "d", "e", "f",
    "g", "h", "i", "j", "k", "l", "m", "n", "o", "p", "q", "r", "s", "t", "u", "v",
    "w", "x", "y", "z", "ª", "µ", "º", "À", "Á", "Â", "Ã", "Ä", "Å", "Æ", "Ç", "È",
    "É", "Ê", "Ë", "Ì", "Í", "Î", "Ï", "Ð", "Ñ", "Ò", "Ó", "Ô", "Õ", "Ö", "Ø", "Ù",
    "Ú", "Û", "Ü", "Ý", "Þ", "ß", "à", "á", "â", "ã", "ä", "å", "æ", "ç", "è", "é",
    "ê", "ë", "ì", "í", "î", "ï", "ð", "ñ", "ò", "ó", "ô", "õ", "ö", "ø", "ù", "ú",
    "û", "ü", "ý", "þ", "ÿ", "ƀ", "Ɓ", "Ƃ", "ƃ", "Ƅ", "ƅ", "Ɔ", "Ƈ", "ƈ", "Ɖ", "Ɗ",
    "Ƌ", "ƌ", "ƍ", "Ǝ", "Ə", "Ɛ", "Ƒ", "ƒ", "Ɠ", "Ɣ", "ƕ", "Ɩ", "Ɨ", "Ƙ", "ƙ", "ƚ",
    "ƛ", "Ɯ", "Ɲ", "ƞ", "Ɵ", "Ơ", "ơ", "Ƣ", "ƣ", "Ƥ", "ƥ", "Ʀ", "Ƨ", "ƨ", "Ʃ", "ƪ",
    "ƫ", "Ƭ", "ƭ", "Ʈ", "Ư", "ư", "Ʊ", "Ʋ", "Ƴ", "ƴ", "Ƶ", "ƶ", "Ʒ", "Ƹ", "ƹ", "ƺ",
    "Ƽ", "ƽ", "ƾ", "ƿ", "Ǆ", "ǅ", "ǆ", "Ǉ", "ǈ", "ǉ", "Ǌ", "ǋ", "ǌ", "Ǎ", "ǎ", "Ǐ",
    "ǐ", "Ǒ", "ǒ", "Ǔ", "ǔ", "Ǖ", "ǖ", "Ǘ", "ǘ", "Ǚ", "ǚ", "Ǜ", "ǜ", "ǝ", "Ǟ", "ǟ",
    "Ǡ", "ǡ", "Ǣ", "ǣ", "Ǥ", "ǥ", "Ǧ", "ǧ", "Ǩ", "ǩ", "Ǫ", "ǫ", "Ǭ", "ǭ", "Ǯ", "ǯ",
    "ǰ", "Ǳ", "ǲ", "ǳ", "Ǵ", "ǵ", "Ƕ", "Ƿ", "Ǹ", "ǹ", "Ǻ", "ǻ", "Ǽ", "ǽ", "Ǿ", "ǿ",
    "ʀ", "ʁ", "ʂ", "ʃ", "ʄ", "ʅ", "ʆ", "ʇ", "ʈ", "ʉ", "ʊ", "ʋ", "ʌ", "ʍ", "ʎ", "ʏ",
    "ʐ", "ʑ", "ʒ", "ʓ", "ʕ", "ʖ", "ʗ", "ʘ", "ʙ", "ʚ", "ʛ", "ʜ", "ʝ", "ʞ", "ʟ", "ʠ",
    "ʡ", "ʢ", "ʣ", "ʤ", "ʥ", "ʦ", "ʧ", "ʨ", "ʩ", "ʪ", "ʫ", "ʬ", "ʭ", "ʮ", "ʯ", "Ά",
    "Έ", "Ή", "Ί", "Ό", "Ύ", "Ώ", "ΐ", "Α", "Β", "Γ", "Δ", "Ε", "Ζ", "Η", "Θ", "Ι",
    "Κ", "Λ", "Μ", "Ν", "Ξ", "Ο", "Π", "Ρ", "Σ", "Τ", "Υ", "Φ", "Χ", "Ψ", "Ω", "Ϊ",
    "Ϋ", "ά", "έ", "ή", "ί", "ΰ", "α", "β", "γ", "δ", "ε", "ζ", "η", "θ", "ι", "κ",
    "λ", "μ", "ν", "ξ", "ο", "π", "ρ", "ς", "σ", "τ", "υ", "φ", "χ", "ψ", "ω", "ϊ",
    "ϋ", "ό", "ύ", "ώ", "Ϗ", "ϐ", "ϑ", "ϒ", "ϓ", "ϔ", "ϕ", "ϖ", "ϗ", "Ϙ", "ϙ", "Ϛ",
    "ϛ", "Ϝ", "ϝ", "Ϟ", "ϟ", "Ϡ", "ϡ", "Ϣ", "ϣ", "Ϥ", "ϥ", "Ϧ", "ϧ", "Ϩ", "ϩ", "Ϫ",
    "ϫ", "Ϭ", "ϭ", "Ϯ", "ϯ", "ϰ", "ϱ", "ϲ", "ϳ", "ϴ", "ϵ", "Ϸ", "ϸ", "Ϲ", "Ϻ", "ϻ",
    "ϼ", "Ͻ", "Ͼ", "Ͽ", "Ҁ", "ҁ", "Ҋ", "ҋ", "Ҍ", "ҍ", "Ҏ", "ҏ", "Ґ", "ґ", "Ғ", "ғ",
    "Ҕ", "ҕ", "Җ", "җ", "Ҙ", "ҙ", "Қ", "қ", "Ҝ", "ҝ", "Ҟ", "ҟ", "Ҡ", "ҡ", "Ң", "ң",
    "Ҥ", "ҥ", "Ҧ", "ҧ", "Ҩ", "ҩ", "Ҫ", "ҫ", "Ҭ", "ҭ", "Ү", "ү", "Ұ", "ұ", "Ҳ", "ҳ",
    "Ҵ", "ҵ", "Ҷ", "ҷ", "Ҹ", "ҹ", "Һ", "һ", "Ҽ", "ҽ", "Ҿ", "ҿ", "Ӏ", "Ӂ", "ӂ", "Ӄ",
    "ӄ", "Ӆ", "ӆ", "Ӈ", "ӈ", "Ӊ", "ӊ", "Ӌ", "ӌ", "Ӎ", "ӎ", "ӏ", "Ӑ", "ӑ", "Ӓ", "ӓ",
    "Ӕ", "ӕ", "Ӗ", "ӗ", "Ә", "ә", "Ӛ", "ӛ", "Ӝ", "ӝ", "Ӟ", "ӟ", "Ӡ", "ӡ", "Ӣ", "ӣ",
    "Ӥ", "ӥ", "Ӧ", "ӧ", "Ө", "ө", "Ӫ", "ӫ", "Ӭ", "ӭ", "Ӯ", "ӯ", "Ӱ", "ӱ", "Ӳ", "ӳ",
    "Ӵ", "ӵ", "Ӷ", "ӷ", "Ӹ", "ӹ", "Ӻ", "ӻ", "Ӽ", "ӽ", "Ӿ", "ӿ", "ր", "ց", "ւ", "փ",
    "ք", "օ", "ֆ", "և", "ֈ", "Ⴀ", "Ⴁ", "Ⴂ", "Ⴃ", "Ⴄ", "Ⴅ", "Ⴆ", "Ⴇ", "Ⴈ", "Ⴉ", "Ⴊ",
    "Ⴋ", "Ⴌ", "Ⴍ", "Ⴎ", "Ⴏ", "Ⴐ", "Ⴑ", "Ⴒ", "Ⴓ", "Ⴔ", "Ⴕ", "Ⴖ", "Ⴗ", "Ⴘ", "Ⴙ", "Ⴚ",
    "Ⴛ", "Ⴜ", "Ⴝ", "Ⴞ", "Ⴟ", "Ⴠ", "Ⴡ", "Ⴢ", "Ⴣ", "Ⴤ", "Ⴥ", "Ⴧ", "Ⴭ", "ა", "ბ", "გ",
    "დ", "ე", "ვ", "ზ", "თ", "ი", "კ", "ლ", "მ", "ნ", "ო", "პ", "ჟ", "რ", "ს", "ტ",
    "უ", "ფ", "ქ", "ღ", "ყ", "შ", "ჩ", "ც", "ძ", "წ", "ჭ", "ხ", "ჯ", "ჰ", "ჱ", "ჲ",
    "ჳ", "ჴ", "ჵ", "ჶ", "ჷ", "ჸ", "ჹ", "ჺ", "ჽ", "ჾ", "ჿ", "Ꭰ", "Ꭱ", "Ꭲ", "Ꭳ", "Ꭴ",
    "Ꭵ", "Ꭶ", "Ꭷ", "Ꭸ", "Ꭹ", "Ꭺ", "Ꭻ", "Ꭼ", "Ꭽ", "Ꭾ", "Ꭿ", "Ꮀ", "Ꮁ", "Ꮂ", "Ꮃ", "Ꮄ",
    "Ꮅ", "Ꮆ", "Ꮇ", "Ꮈ", "Ꮉ", "Ꮊ", "Ꮋ", "Ꮌ", "Ꮍ", "Ꮎ", "Ꮏ", "Ꮐ", "Ꮑ", "Ꮒ", "Ꮓ", "Ꮔ",
    "Ꮕ", "Ꮖ", "Ꮗ", "Ꮘ", "Ꮙ", "Ꮚ", "Ꮛ", "Ꮜ", "Ꮝ", "Ꮞ", "Ꮟ", "Ꮠ", "Ꮡ", "Ꮢ", "Ꮣ", "Ꮤ",
    "Ꮥ", "Ꮦ", "Ꮧ", "Ꮨ", "Ꮩ", "Ꮪ", "Ꮫ", "Ꮬ", "Ꮭ", "Ꮮ", "Ꮯ", "Ꮰ", "Ꮱ", "Ꮲ", "Ꮳ", "Ꮴ",
    "Ꮵ", "Ꮶ", "Ꮷ", "Ꮸ", "Ꮹ", "Ꮺ", "Ꮻ", "Ꮼ", "Ꮽ", "Ꮾ", "Ꮿ", "Ᏸ", "Ᏹ", "Ᏺ", "Ᏻ", "Ᏼ",
    "Ᏽ", "ᏸ", "ᏹ", "ᏺ", "ᏻ", "ᏼ", "ᏽ", "ᲀ", "ᲁ", "ᲂ", "ᲃ", "ᲄ", "ᲅ", "ᲆ", "ᲇ", "ᲈ",
    "Ა", "Ბ", "Გ", "Დ", "Ე", "Ვ", "Ზ", "Თ", "Ი", "Კ", "Ლ", "Მ", "Ნ", "Ო", "Პ", "Ჟ",
    "Რ", "Ს", "Ტ", "Უ", "Ფ", "Ქ", "Ღ", "Ყ", "Შ", "Ჩ", "Ც", "Ძ", "Წ", "Ჭ", "Ხ", "Ჯ",
    "Ჰ", "Ჱ", "Ჲ", "Ჳ", "Ჴ", "Ჵ", "Ჶ", "Ჷ", "Ჸ", "Ჹ", "Ჺ", "Ჽ", "Ჾ", "Ჿ", "ᶀ", "ᶁ",
    "ᶂ", "ᶃ", "ᶄ", "ᶅ", "ᶆ", "ᶇ", "ᶈ", "ᶉ", "ᶊ", "ᶋ", "ᶌ", "ᶍ", "ᶎ", "ᶏ", "ᶐ", "ᶑ",
    "ᶒ", "ᶓ", "ᶔ", "ᶕ", "ᶖ", "ᶗ", "ᶘ", "ᶙ", "ᶚ", "Ẁ", "ẁ", "Ẃ", "ẃ", "Ẅ", "ẅ", "Ẇ",
    "ẇ", "Ẉ", "ẉ", "Ẋ", "ẋ", "Ẍ", "ẍ", "Ẏ", "ẏ", "Ẑ", "ẑ", "Ẓ", "ẓ", "Ẕ", "ẕ", "ẖ",
    "ẗ", "ẘ", "ẙ", "ẚ", "ẛ", "ẜ", "ẝ", "ẞ", "ẟ", "Ạ", "ạ", "Ả", "ả", "Ấ", "ấ", "Ầ",
    "ầ", "Ẩ", "ẩ", "Ẫ", "ẫ", "Ậ", "ậ", "Ắ", "ắ", "Ằ", "ằ", "Ẳ", "ẳ", "Ẵ", "ẵ", "Ặ",
    "ặ", "Ẹ", "ẹ", "Ẻ", "ẻ", "Ẽ", "ẽ", "Ế", "ế", "Ề", "ề", "Ể", "ể", "Ễ", "ễ", "Ệ",
    "ệ", "Ỉ", "ỉ", "Ị", "ị", "Ọ", "ọ", "Ỏ", "ỏ", "Ố", "ố", "Ồ", "ồ", "Ổ", "ổ", "Ỗ",
    "ỗ", "Ộ", "ộ", "Ớ", "ớ", "Ờ", "ờ", "Ở", "ở", "Ỡ", "ỡ", "Ợ", "ợ", "Ụ", "ụ", "Ủ",
    "ủ", "Ứ", "ứ", "Ừ", "ừ", "Ử", "ử", "Ữ", "ữ", "Ự", "ự", "Ỳ", "ỳ", "Ỵ", "ỵ", "Ỷ",
    "ỷ", "Ỹ", "ỹ", "Ỻ", "ỻ", "Ỽ", "ỽ", "Ỿ", "ỿ", "ᾀ", "ᾁ", "ᾂ", "ᾃ", "ᾄ", "ᾅ", "ᾆ",
    "ᾇ", "ᾈ", "ᾉ", "ᾊ", "ᾋ", "ᾌ", "ᾍ", "ᾎ", "ᾏ", "ᾐ", "ᾑ", "ᾒ", "ᾓ", "ᾔ", "ᾕ", "ᾖ",
    "ᾗ", "ᾘ", "ᾙ", "ᾚ", "ᾛ", "ᾜ", "ᾝ", "ᾞ", "ᾟ", "ᾠ", "ᾡ", "ᾢ", "ᾣ", "ᾤ", "ᾥ", "ᾦ",
    "ᾧ", "ᾨ", "ᾩ", "ᾪ", "ᾫ", "ᾬ", "ᾭ", "ᾮ", "ᾯ", "ᾰ", "ᾱ", "ᾲ", "ᾳ", "ᾴ", "ᾶ", "ᾷ",
    "Ᾰ", "Ᾱ", "Ὰ", "Ά", "ᾼ", "ι", "ῂ", "ῃ", "ῄ", "ῆ", "ῇ", "Ὲ", "Έ", "Ὴ", "Ή", "ῌ",
    "ῐ", "ῑ", "ῒ", "ΐ", "ῖ", "ῗ", "Ῐ", "Ῑ", "Ὶ", "Ί", "ῠ", "ῡ", "ῢ", "ΰ", "ῤ", "ῥ",
    "ῦ", "ῧ", "Ῠ", "Ῡ", "Ὺ", "Ύ", "Ῥ", "ῲ", "ῳ", "ῴ", "ῶ", "ῷ", "Ὸ", "Ό", "Ὼ", "Ώ",
    "ῼ", "Ↄ", "ↄ", "Ⓐ", "Ⓑ", "Ⓒ", "Ⓓ", "Ⓔ", "Ⓕ", "Ⓖ", "Ⓗ", "Ⓘ", "Ⓙ", "Ⓚ", "Ⓛ", "Ⓜ",
    "Ⓝ", "Ⓞ", "Ⓟ", "Ⓠ", "Ⓡ", "Ⓢ", "Ⓣ", "Ⓤ", "Ⓥ", "Ⓦ", "Ⓧ", "Ⓨ", "Ⓩ", "ⓐ", "ⓑ", "ⓒ",
    "ⓓ", "ⓔ", "ⓕ", "ⓖ", "ⓗ", "ⓘ", "ⓙ", "ⓚ", "ⓛ", "ⓜ", "ⓝ", "ⓞ", "ⓟ", "ⓠ", "ⓡ", "ⓢ",
    "ⓣ", "ⓤ", "ⓥ", "ⓦ", "ⓧ", "ⓨ", "ⓩ", "Ⲁ", "ⲁ", "Ⲃ", "ⲃ", "Ⲅ", "ⲅ", "Ⲇ", "ⲇ", "Ⲉ",
    "ⲉ", "Ⲋ", "ⲋ", "Ⲍ", "ⲍ", "Ⲏ", "ⲏ", "Ⲑ", "ⲑ", "Ⲓ", "ⲓ", "Ⲕ", "ⲕ", "Ⲗ", "ⲗ", "Ⲙ",
    "ⲙ", "Ⲛ", "ⲛ", "Ⲝ", "ⲝ", "Ⲟ", "ⲟ", "Ⲡ", "ⲡ", "Ⲣ", "ⲣ", "Ⲥ", "ⲥ", "Ⲧ", "ⲧ", "Ⲩ",
    "ⲩ", "Ⲫ", "ⲫ", "Ⲭ", "ⲭ", "Ⲯ", "ⲯ", "Ⲱ", "ⲱ", "Ⲳ", "ⲳ", "Ⲵ", "ⲵ", "Ⲷ", "ⲷ", "Ⲹ",
    "ⲹ", "Ⲻ", "ⲻ", "Ⲽ", "ⲽ", "Ⲿ", "ⲿ", "Ⳁ", "ⳁ", "Ⳃ", "ⳃ", "Ⳅ", "ⳅ", "Ⳇ", "ⳇ", "Ⳉ",
    "ⳉ", "Ⳋ", "ⳋ", "Ⳍ", "ⳍ", "Ⳏ", "ⳏ", "Ⳑ", "ⳑ", "Ⳓ", "ⳓ", "Ⳕ", "ⳕ", "Ⳗ", "ⳗ", "Ⳙ",
    "ⳙ", "Ⳛ", "ⳛ", "Ⳝ", "ⳝ", "Ⳟ", "ⳟ", "Ⳡ", "ⳡ", "Ⳣ", "ⳣ", "ⳤ", "Ⳬ", "ⳬ", "Ⳮ", "ⳮ",
    "Ⳳ", "ⳳ", "Ꚁ", "ꚁ", "Ꚃ", "ꚃ", "Ꚅ", "ꚅ", "Ꚇ", "ꚇ", "Ꚉ", "ꚉ", "Ꚋ", "ꚋ", "Ꚍ", "ꚍ",
    "Ꚏ", "ꚏ", "Ꚑ", "ꚑ", "Ꚓ", "ꚓ", "Ꚕ", "ꚕ", "Ꚗ", "ꚗ", "Ꚙ", "ꚙ", "Ꚛ", "ꚛ", "Ꞁ", "ꞁ",
    "Ꞃ", "ꞃ", "Ꞅ", "ꞅ", "Ꞇ", "ꞇ", "Ꞌ", "ꞌ", "Ɥ", "ꞎ", "Ꞑ", "ꞑ", "Ꞓ", "ꞓ", "ꞔ", "ꞕ",
    "Ꞗ", "ꞗ", "Ꞙ", "ꞙ", "Ꞛ", "ꞛ", "Ꞝ", "ꞝ", "Ꞟ", "ꞟ", "Ꞡ", "ꞡ", "Ꞣ", "ꞣ", "Ꞥ", "ꞥ",
    "Ꞧ", "ꞧ", "Ꞩ", "ꞩ", "Ɦ", "Ɜ", "Ɡ", "Ɬ", "Ɪ", "ꞯ", "Ʞ", "Ʇ", "Ʝ", "Ꭓ", "Ꞵ", "ꞵ",
    "Ꞷ", "ꞷ", "Ꞹ", "ꞹ", "Ꞻ", "ꞻ", "Ꞽ", "ꞽ", "Ꞿ", "ꞿ", "Ꟁ", "ꟁ", "Ꟃ", "ꟃ", "Ꞔ", "Ʂ",
    "Ᶎ", "Ꟈ", "ꟈ", "Ꟊ", "ꟊ", "Ꟑ", "ꟑ", "ꟓ", "ꟕ", "Ꟗ", "ꟗ", "Ꟙ", "ꟙ", "Ꟶ", "ꟶ", "ꟺ",
    "ꮀ", "ꮁ", "ꮂ", "ꮃ", "ꮄ", "ꮅ", "ꮆ", "ꮇ", "ꮈ", "ꮉ", "ꮊ", "ꮋ", "ꮌ", "ꮍ", "ꮎ", "ꮏ",
    "ꮐ", "ꮑ", "ꮒ", "ꮓ", "ꮔ", "ꮕ", "ꮖ", "ꮗ", "ꮘ", "ꮙ", "ꮚ", "ꮛ", "ꮜ", "ꮝ", "ꮞ", "ꮟ",
    "ꮠ", "ꮡ", "ꮢ", "ꮣ", "ꮤ", "ꮥ", "ꮦ", "ꮧ", "ꮨ", "ꮩ", "ꮪ", "ꮫ", "ꮬ", "ꮭ", "ꮮ", "ꮯ",
    "ꮰ", "ꮱ", "ꮲ", "ꮳ", "ꮴ", "ꮵ", "ꮶ", "ꮷ", "ꮸ", "ꮹ", "ꮺ", "ꮻ", "ꮼ", "ꮽ", "ꮾ", "ꮿ" }

\* The dict that takes rows[k][1] to rows[k][col], for the rows lo..hi.
RECURSIVE DictOf(_, _, _, _)
DictOf(rows, col, lo, hi) ==
    IF lo > hi THEN <<>>
    ELSE IF lo = hi THEN rows[lo][1] :> rows[lo][col]
    ELSE DictOf(rows, col, lo, (lo + hi) \div 2) @@
         DictOf(rows, col, (lo + hi) \div 2 + 1, hi)

\* The capital letters, each with its str.lower().
LowerOf == DictOf(LowerPairs, 2, 1, Len(LowerPairs))

\* str.lower() of one character, where it does not depend on the characters
\* around it.  The lower case of a capital of LowerUnwritable is no value of
\* this module, and no name of the specifications holds one.
LowerChar(c) ==
    IF c \in DOMAIN LowerOf THEN LowerOf[c]
    ELSE IF c \in LowerUnwritable THEN CHOOSE l \in {} : TRUE
    ELSE c

\* The capital sigma s[i] is a final sigma (CPython's handle_capital_sigma):
\* the nearest character before it that is not Case_Ignorable is a cased
\* letter, and the nearest such character after it is not.
FinalSigma(s, i) ==
    LET before == {j \in 1..(i - 1) : s[j] \notin CaseIgnorable}
        after  == {j \in (i + 1)..Len(s) : s[j] \notin CaseIgnorable}
    IN  /\ before # {}
        /\ s[CHOOSE j \in before : \A k \in before : k <= j] \in CasedLetters
        /\ \/ after = {}
           \/ s[CHOOSE j \in after : \A k \in after : j <= k] \notin CasedLetters

\* str.lower(): character by character, but for the capital sigma, which
\* becomes U+03C2 at the end of a word and U+03C3 elsewhere.  U+0130, the one
\* character whose lower() is two characters, cannot be written in a string
\* of this module.
Lower(s) ==
    [i \in 1..Len(s) |->
        IF s[i] = "Σ" THEN (IF FinalSigma(s, i) THEN "ς" ELSE "σ")
        ELSE LowerChar(s[i])]

\* strip() left out.
StripSkipped(s) == s

\* str.strip()
Strip(s) ==
    LET solid == {i \in 1..Len(s) : ~IsSpace(s[i])}
    IN  IF solid = {} THEN <<>>
        ELSE SubSeq(s, CHOOSE i \in solid : \A j \in solid : i <= j,
                       CHOOSE i \in solid : \A j \in solid : j <= i)

\* re.sub(r"\s+", " ", s): every maximal run of whitespace becomes one space.
RECURSIVE CollapseFrom(_, _)
CollapseFrom(s, i) ==
    IF i > Len(s) THEN <<>>
    ELSE IF ~IsSpace(s[i]) THEN <<s[i]>> \o CollapseFrom(s, i + 1)
    ELSE IF i > 1 /\ IsSpace(s[i - 1]) THEN CollapseFrom(s, i + 1)
    ELSE <<" ">> \o CollapseFrom(s, i + 1)

CollapseWhitespace(s) == CollapseFrom(s, 1)

\* The alternatives of the suffix pattern: as, a/s, ans, da, sa.
LegalSuffixes == {<<"a","s">>, <<"a","/","s">>, <<"a","n","s">>,
                  <<"d","a">>, <<"s","a">>}

\* s[from..to] is one of the suffixes and the character before it is whitespace.
SuffixAt(s, to) ==
    {x \in LegalSuffixes :
        /\ to - Len(x) >= 1
        /\ SubSeq(s, to - Len(x) + 1, to) = x
        /\ IsSpace(s[to - Len(x)])}

\* First index of the whitespace run that ends at index last.
RECURSIVE RunStart(_, _)
RunStart(s, last) ==
    IF last > 1 /\ IsSpace(s[last - 1]) THEN RunStart(s, last - 1) ELSE last

\* The substitution with \s* in place of \s+: the suffix need not be a word.
StripSuffixNoSpace(s) ==
    LET n == Len(s)
        m == {x \in LegalSuffixes : Len(x) <= n /\ SubSeq(s, n - Len(x) + 1, n) = x}
    IN  IF m = {} THEN s
        ELSE LET x == CHOOSE x \in m : TRUE
             IN  SubSeq(s, 1, RunStart(s, n - Len(x) + 1) - 1)

\* re.sub(r"\s+(as|a/s|ans|da|sa)$", "", s).  $ matches at the end of the
\* string and just before a newline that ends it; the match is removed once.
StripSuffix(s) ==
    LET n    == Len(s)
        stop == IF SuffixAt(s, n) # {} THEN n
                ELSE IF n > 0 /\ s[n] = "\n" /\ SuffixAt(s, n - 1) # {} THEN n - 1
                ELSE 0
    IN  IF stop = 0 THEN s
        ELSE LET x == CHOOSE x \in SuffixAt(s, stop) : TRUE
             IN  SubSeq(s, 1, RunStart(s, stop - Len(x)) - 1) \o SubSeq(s, stop + 1, n)

\* ------------------------------------------------------ CUSTOMER_ALIASES
AliasEntries == <<
    \* straye hybrid -> straye hybridbygg
    <<<<"s","t","r","a","y","e"," ","h","y","b","r","i","d">>,
      <<"s","t","r","a","y","e"," ","h","y","b","r","i","d","b","y","g","g">>>>,
    \* straye hybrid as -> straye hybridbygg
    <<<<"s","t","r","a","y","e"," ","h","y","b","r","i","d"," ","a","s">>,
      <<"s","t","r","a","y","e"," ","h","y","b","r","i","d","b","y","g","g">>>>,
    \* strayeindustri -> straye industri
    <<<<"s","t","r","a","y","e","i","n","d","u","s","t","r","i">>,
      <<"s","t","r","a","y","e"," ","i","n","d","u","s","t","r","i">>>>,
    \* strayeindustri as -> straye industri
    <<<<"s","t","r","a","y","e","i","n","d","u","s","t","r","i"," ","a","s">>,
      <<"s","t","r","a","y","e"," ","i","n","d","u","s","t","r","i">>>>,
    \* straye industribygg -> straye industri
    <<<<"s","t","r","a","y","e"," ","i","n","d","u","s","t","r","i","b","y","g","g">>,
      <<"s","t","r","a","y","e"," ","i","n","d","u","s","t","r","i">>>>,
    \* straye industribygg as -> straye industri
    <<<<"s","t","r","a","y","e"," ","i","n","d","u","s","t","r","i","b","y","g","g"," ","a","s">>,
      <<"s","t","r","a","y","e"," ","i","n","d","u","s","t","r","i">>>>,
    \* veidekke -> veidekke entreprenør
    <<<<"v","e","i","d","e","k","k","e">>,
      <<"v","e","i","d","e","k","k","e"," ","e","n","t","r","e","p","r","e","n","ø","r">>>>,
    \* veidekke as -> veidekke entreprenør
    <<<<"v","e","i","d","e","k","k","e"," ","a","s">>,
      <<"v","e","i","d","e","k","k","e"," ","e","n","t","r","e","p","r","e","n","ø","r">>>>,
    \* veidekke bygg -> veidekke entreprenør
    <<<<"v","e","i","d","e","k","k","e"," ","b","y","g","g">>,
      <<"v","e","i","d","e","k","k","e"," ","e","n","t","r","e","p","r","e","n","ø","r">>>>,
    \* veidekke bygg- vest -> veidekke entreprenør
    <<<<"v","e","i","d","e","k","k","e"," ","b","y","g","g","-"," ","v","e","s","t">>,
      <<"v","e","i","d","e","k","k","e"," ","e","n","t","r","e","p","r","e","n","ø","r">>>>,
    \* veidekke bygg vest -> veidekke entreprenør
    <<<<"v","e","i","d","e","k","k","e"," ","b","y","g","g"," ","v","e","s","t">>,
      <<"v","e","i","d","e","k","k","e"," ","e","n","t","r","e","p","r","e","n","ø","r">>>>,
    \* veidekke ålesund -> veidekke entreprenør
    <<<<"v","e","i","d","e","k","k","e"," ","å","l","e","s","u","n","d">>,
      <<"v","e","i","d","e","k","k","e"," ","e","n","t","r","e","p","r","e","n","ø","r">>>>,
    \* seby as/ veidekke as -> veidekke entreprenør
    <<<<"s","e","b","y"," ","a","s","/"," ","v","e","i","d","e","k","k","e"," ","a","s">>,
      <<"v","e","i","d","e","k","k","e"," ","e","n","t","r","e","p","r","e","n","ø","r">>>>,
    \* peab -> peab bygg
    <<<<"p","e","a","b">>,
      <<"p","e","a","b"," ","b","y","g","g">>>>,
    \* peab as -> peab bygg
    <<<<"p","e","a","b"," ","a","s">>,
      <<"p","e","a","b"," ","b","y","g","g">>>>,
    \* peab/ straye stålbygg -> straye stålbygg
    <<<<"p","e","a","b","/"," ","s","t","r","a","y","e"," ","s","t","å","l","b","y","g","g">>,
      <<"s","t","r","a","y","e"," ","s","t","å","l","b","y","g","g">>>>,
    \* a bygg -> a bygg entreprenør
    <<<<"a"," ","b","y","g","g">>,
      <<"a"," ","b","y","g","g"," ","e","n","t","r","e","p","r","e","n","ø","r">>>>,
    \* betongbygg -> as betongbygg
    <<<<"b","e","t","o","n","g","b","y","g","g">>,
      <<"a","s"," ","b","e","t","o","n","g","b","y","g","g">>>>,
    \* betongbygg as -> as betongbygg
    <<<<"b","e","t","o","n","g","b","y","g","g"," ","a","s">>,
      <<"a","s"," ","b","e","t","o","n","g","b","y","g","g">>>>,
    \* byggkompaniet -> byggkompaniet østfold
    <<<<"b","y","g","g","k","o","m","p","a","n","i","e","t">>,
      <<"b","y","g","g","k","o","m","p","a","n","i","e","t"," ","ø","s","t","f","o","l","d">>>>,
    \* enter solutions -> enter solution
    <<<<"e","n","t","e","r"," ","s","o","l","u","t","i","o","n","s">>,
      <<"e","n","t","e","r"," ","s","o","l","u","t","i","o","n">>>>,
    \* enter solutions as -> enter solution
    <<<<"e","n","t","e","r"," ","s","o","l","u","t","i","o","n","s"," ","a","s">>,
      <<"e","n","t","e","r"," ","s","o","l","u","t","i","o","n">>>>,
    \* furuno -> furuno norge
    <<<<"f","u","r","u","n","o">>,
      <<"f","u","r","u","n","o"," ","n","o","r","g","e">>>>,
    \* furuno as -> furuno norge
    <<<<"f","u","r","u","n","o"," ","a","s">>,
      <<"f","u","r","u","n","o"," ","n","o","r","g","e">>>>,
    \* fusen -> solenergi fusen
    <<<<"f","u","s","e","n">>,
      <<"s","o","l","e","n","e","r","g","i"," ","f","u","s","e","n">>>>,
    \* totalbetong -> totalbetong gruppen
    <<<<"t","o","t","a","l","b","e","t","o","n","g">>,
      <<"t","o","t","a","l","b","e","t","o","n","g"," ","g","r","u","p","p","e","n">>>>,
    \* vestre bærum tennis -> vestre bærum tennisklubb
    <<<<"v","e","s","t","r","e"," ","b","æ","r","u","m"," ","t","e","n","n","i","s">>,
      <<"v","e","s","t","r","e"," ","b","æ","r","u","m"," ","t","e","n","n","i","s","k","l","u","b","b">>>>,
    \* workman -> workman norway
    <<<<"w","o","r","k","m","a","n">>,
      <<"w","o","r","k","m","a","n"," ","n","o","r","w","a","y">>>>,
    \* workman as -> workman norway
    <<<<"w","o","r","k","m","a","n"," ","a","s">>,
      <<"w","o","r","k","m","a","n"," ","n","o","r","w","a","y">>>>,
    \* hallmaker as/ straye stålbygg as -> hallmaker
    <<<<"h","a","l","l","m","a","k","e","r"," ","a","s","/"," ","s","t","r","a","y","e"," ","s","t","å","l","b","y","g","g"," ","a","s">>,
      <<"h","a","l","l","m","a","k","e","r">>>>,
    \* straye stålbygg as / hallmaker -> hallmaker
    <<<<"s","t","r","a","y","e"," ","s","t","å","l","b","y","g","g"," ","a","s"," ","/"," ","h","a","l","l","m","a","k","e","r">>,
      <<"h","a","l","l","m","a","k","e","r">>>>,
    \* straye stålbygg as/ hallmaker -> hallmaker
    <<<<"s","t","r","a","y","e"," ","s","t","å","l","b","y","g","g"," ","a","s","/"," ","h","a","l","l","m","a","k","e","r">>,
      <<"h","a","l","l","m","a","k","e","r">>>>,
    \* thermica as/ hallmaker -> hallmaker
    <<<<"t","h","e","r","m","i","c","a"," ","a","s","/"," ","h","a","l","l","m","a","k","e","r">>,
      <<"h","a","l","l","m","a","k","e","r">>>>,
    \* dpend/ straye stålbygg -> straye stålbygg
    <<<<"d","p","e","n","d","/"," ","s","t","r","a","y","e"," ","s","t","å","l","b","y","g","g">>,
      <<"s","t","r","a","y","e"," ","s","t","å","l","b","y","g","g">>>>,
    \* byggekompaniet østfold -> byggkompaniet østfold
    <<<<"b","y","g","g","e","k","o","m","p","a","n","i","e","t"," ","ø","s","t","f","o","l","d">>,
      <<"b","y","g","g","k","o","m","p","a","n","i","e","t"," ","ø","s","t","f","o","l","d">>>>,
    \* km bygg -> kopperud murtnes bygg
    <<<<"k","m"," ","b","y","g","g">>,
      <<"k","o","p","p","e","r","u","d"," ","m","u","r","t","n","e","s"," ","b","y","g","g">>>>,
    \* km bygg?? -> kopperud murtnes bygg
    <<<<"k","m"," ","b","y","g","g","?","?">>,
      <<"k","o","p","p","e","r","u","d"," ","m","u","r","t","n","e","s"," ","b","y","g","g">>>>,
    \* arealbygg -> areal bygg
    <<<<"a","r","e","a","l","b","y","g","g">>,
      <<"a","r","e","a","l"," ","b","y","g","g">>>>,
    \* geir nielsen (holmskau) -> geir nilsen
    <<<<"g","e","i","r"," ","n","i","e","l","s","e","n"," ","(","h","o","l","m","s","k","a","u",")">>,
      <<"g","e","i","r"," ","n","i","l","s","e","n">>>>,
    \* hansen & dahl -> hansen & dahl
    <<<<"h","a","n","s","e","n"," ","&"," ","d","a","h","l">>,
      <<"h","a","n","s","e","n"," ","&"," ","d","a","h","l">>>>,
    \* høstbakken 11 -> høstbakken eiendom
    <<<<"h","ø","s","t","b","a","k","k","e","n"," ","1","1">>,
      <<"h","ø","s","t","b","a","k","k","e","n"," ","e","i","e","n","d","o","m">>>>,
    \* høstbakken 11 as -> høstbakken eiendom
    <<<<"h","ø","s","t","b","a","k","k","e","n"," ","1","1"," ","a","s">>,
      <<"h","ø","s","t","b","a","k","k","e","n"," ","e","i","e","n","d","o","m">>>>,
    \* matotalbygg -> ma totalbygg
    <<<<"m","a","t","o","t","a","l","b","y","g","g">>,
      <<"m","a"," ","t","o","t","a","l","b","y","g","g">>>>,
    \* matotalbygg as -> ma totalbygg
    <<<<"m","a","t","o","t","a","l","b","y","g","g"," ","a","s">>,
      <<"m","a"," ","t","o","t","a","l","b","y","g","g">>>>,
    \* nordbygg -> norbygg
    <<<<"n","o","r","d","b","y","g","g">>,
      <<"n","o","r","b","y","g","g">>>>,
    \* nordbygg as -> norbygg
    <<<<"n","o","r","d","b","y","g","g"," ","a","s">>,
      <<"n","o","r","b","y","g","g">>>>,
    \* park & anlegg -> park og anlegg
    <<<<"p","a","r","k"," ","&"," ","a","n","l","e","g","g">>,
      <<"p","a","r","k"," ","o","g"," ","a","n","l","e","g","g">>>>,
    \* sameie hoffsveien 88 -> sameiet hoffsveien 88/90
    <<<<"s","a","m","e","i","e"," ","h","o","f","f","s","v","e","i","e","n"," ","8","8">>,
      <<"s","a","m","e","i","e","t"," ","h","o","f","f","s","v","e","i","e","n"," ","8","8","/","9","0">>>>,
    \* sameiet kornmoenga -> kornmoenga 3 sameie
    <<<<"s","a","m","e","i","e","t"," ","k","o","r","n","m","o","e","n","g","a">>,
      <<"k","o","r","n","m","o","e","n","g","a"," ","3"," ","s","a","m","e","i","e">>>>,
    \* tatalbygg midt-norge -> totalbygg midt-norge
    <<<<"t","a","t","a","l","b","y","g","g"," ","m","i","d","t","-","n","o","r","g","e">>,
      <<"t","o","t","a","l","b","y","g","g"," ","m","i","d","t","-","n","o","r","g","e">>>>,
    \* tatalbygg midt-norge as -> totalbygg midt-norge
    <<<<"t","a","t","a","l","b","y","g","g"," ","m","i","d","t","-","n","o","r","g","e"," ","a","s">>,
      <<"t","o","t","a","l","b","y","g","g"," ","m","i","d","t","-","n","o","r","g","e">>>>,
    \* øm fjell -> ø.m. fjeld
    <<<<"ø","m"," ","f","j","e","l","l">>,
      <<"ø",".","m","."," ","f","j","e","l","d">>>>,
    \* øm fjell as -> ø.m. fjeld
    <<<<"ø","m"," ","f","j","e","l","l"," ","a","s">>,
      <<"ø",".","m","."," ","f","j","e","l","d">>>>,
    \* grinda 9 revidert -> jesper vogt-lorentzen
    <<<<"g","r","i","n","d","a"," ","9"," ","r","e","v","i","d","e","r","t">>,
      <<"j","e","s","p","e","r"," ","v","o","g","t","-","l","o","r","e","n","t","z","e","n">>>>,
    \* flere- gikk til km bygg -> kopperud murtnes bygg
    <<<<"f","l","e","r","e","-"," ","g","i","k","k"," ","t","i","l"," ","k","m"," ","b","y","g","g">>,
      <<"k","o","p","p","e","r","u","d"," ","m","u","r","t","n","e","s"," ","b","y","g","g">>>>,
    \* flere -> kopperud murtnes bygg
    <<<<"f","l","e","r","e">>,
      <<"k","o","p","p","e","r","u","d"," ","m","u","r","t","n","e","s"," ","b","y","g","g">>>>,
    \* ukjent kunde -> kopperud murtnes bygg
    <<<<"u","k","j","e","n","t"," ","k","u","n","d","e">>,
      <<"k","o","p","p","e","r","u","d"," ","m","u","r","t","n","e","s"," ","b","y","g","g">>>>,
    \* 2581 hjelseth -> kopperud murtnes bygg
    <<<<"2","5","8","1"," ","h","j","e","l","s","e","t","h">>,
      <<"k","o","p","p","e","r","u","d"," ","m","u","r","t","n","e","s"," ","b","y","g","g">>>>
>>

AliasKeys   == {AliasEntries[i][1] : i \in 1..Len(AliasEntries)}
AliasValues == {AliasEntries[i][2] : i \in 1..Len(AliasEntries)}

\* The dict of the first i entries: a key written twice keeps its last value.
RECURSIVE AliasDict(_)
AliasDict(i) ==
    IF i = 0 THEN <<>>
    ELSE (AliasEntries[i][1] :> AliasEntries[i][2]) @@ AliasDict(i - 1)

CUSTOMER_ALIASES == AliasDict(Len(AliasEntries))

\* The alias lookup left out.
ApplyAliasSkipped(s) == s

\* if name in CUSTOMER_ALIASES: name = CUSTOMER_ALIASES[name]
ApplyAlias(s) == IF s \in AliasKeys THEN CUSTOMER_ALIASES[s] ELSE s

\* The whitespace substitution left out.
CleanNameNoCollapse(s) == Strip(Lower(s))

\* name.lower().strip() followed by the whitespace substitution.
CleanName(s) == CollapseWhitespace(Strip(Lower(s)))

\* The normalizer with the alias lookup made after the suffix removal only.
normalize_alias_after_suffix(s) ==
    IF s = None \/ s = <<>> THEN <<>>
    ELSE ApplyAlias(StripSuffix(CleanName(s)))

\* The normalizer with the suffix left in place.
normalize_suffix_kept(s) ==
    IF s = None \/ s = <<>> THEN <<>>
    ELSE ApplyAlias(ApplyAlias(CleanName(s)))

normalize_customer_name(s) ==
    IF s = None \/ s = <<>> THEN <<>>
    ELSE ApplyAlias(StripSuffix(ApplyAlias(CleanName(s))))

\* ------------------------------------------------- values of an idle part
\* Each specification below drives one part of the scripts; the variables of
\* the other parts keep these values.
NormIdle   == name = <<>> /\ ntok = 0 /\ normalized = <<>> /\ renormalized = <<>>
ResIdle    == /\ alias_key = <<>> /\ customers = <<>> /\ fetched = <<>>
              /\ customer_cache = <<>> /\ customer_cache_loaded = FALSE
              /\ customer_name = <<>> /\ found = None
ScoreIdle  == name1 = <<>> /\ name2 = <<>> /\ score = <<0, 1>> /\ score_rev = <<0, 1>>
AssignIdle == /\ offers = <<>> /\ now_year = 2025 /\ sorted_offers = <<>>
              /\ prev_numbers = {}
ImportIdle == /\ dry_run = FALSE /\ importable = <<>> /\ skipped = <<>>
              /\ inserted = <<>> /\ saved = <<>>
              /\ clear = FALSE /\ output_sql = FALSE /\ db_offers = {}
              /\ tx_offers = {} /\ tx_state = "none" /\ sql_inserts = <<>>
LoopIdle   == /\ year_seqs = <<>> /\ numbered_count = 0 /\ loop_offer = <<>>
              /\ loop_numbers = {}
ReadIdle   == excel_rows = <<>> /\ read_offers = <<>>
CustIdle   == customer_rows = <<>> /\ read_customers = <<>>
AgreeIdle  == report_keys = <<>> /\ import_keys = <<>>
ReportIdle == /\ excel_customers = {} /\ db_customers = <<>> /\ excel_name = <<>>
              /\ best_match = None /\ best_score = <<0, 1>>
              /\ exact_matches = <<>> /\ probable_matches = <<>>
              /\ needs_attention = <<>>

\* ------------------------------------------------ normalize_customer_name
\* Raw names are built from these words, written next to each other or
\* separated by a space; "\t" and "\r" make runs of mixed whitespace, and
\* "É" is a capital letter outside ASCII; the Greek word ends in a capital
\* sigma, whose lower case depends on the letters around it.
Words      == {<<"x">>, <<"h","a","n">>, <<"a","s">>, <<"A","S">>,
               <<"a","/","s">>, <<"s","a">>, <<"\t">>, <<"\r">>, <<"É">>,
               <<"Α","Σ">>}
Separators == {<<>>, <<" ">>}

InitNormalize ==
    /\ pc = "input"
    /\ NormIdle /\ ResIdle /\ ScoreIdle /\ AssignIdle /\ ImportIdle /\ ReportIdle
    /\ LoopIdle /\ ReadIdle /\ CustIdle /\ AgreeIdle

\* The caller passes None (pandas gave no value).
PassNone ==
    /\ pc = "input" /\ ntok = 0
    /\ name' = None /\ ntok' = MaxTokens
    /\ UNCHANGED <<pc, normalized, renormalized, resVars, scoreVars, assignVars,
                   importVars, reportVars, moreVars>>

\* The raw name starts as a key or a value of the alias table.
StartFromAlias(s) ==
    /\ pc = "input" /\ ntok = 0 /\ ntok + 2 <= MaxTokens
    /\ name' = s /\ ntok' = ntok + 2
    /\ UNCHANGED <<pc, normalized, renormalized, resVars, scoreVars, assignVars,
                   importVars, reportVars, moreVars>>

\* One more word of the raw name.
AppendToken(sep, w) ==
    /\ pc = "input" /\ ntok < MaxTokens
    /\ name' = name \o sep \o w /\ ntok' = ntok + 1
    /\ UNCHANGED <<pc, normalized, renormalized, resVars, scoreVars, assignVars,
                   importVars, reportVars, moreVars>>

\* normalized = normalize_customer_name(name)
Normalize ==
    /\ pc = "input"
    /\ normalized' = normalize_customer_name(name)
    /\ pc' = "normalized"
    /\ UNCHANGED <<name, ntok, renormalized, resVars, scoreVars, assignVars,
                   importVars, reportVars, moreVars>>

\* renormalized = normalize_customer_name(normalized)
Renormalize ==
    /\ pc = "normalized"
    /\ renormalized' = normalize_customer_name(normalized)
    /\ pc' = "renormalized"
    /\ UNCHANGED <<name, ntok, normalized, resVars, scoreVars, assignVars,
                   importVars, reportVars, moreVars>>

NextNormalize ==
    \/ PassNone
    \/ \E s \in AliasKeys \cup AliasValues : StartFromAlias(s)
    \/ \E sep \in Separators, w \in Words : AppendToken(sep, w)
    \/ Normalize
    \/ Renormalize

SpecNormalize == InitNormalize /\ [][NextNormalize]_vars

\* Words of a cleaned name: the maximal runs without a space.
RECURSIVE SplitFrom(_, _, _)
SplitFrom(s, i, word) ==
    IF i > Len(s) THEN (IF word = <<>> THEN <<>> ELSE <<word>>)
    ELSE IF IsSpace(s[i])
         THEN (IF word = <<>> THEN <<>> ELSE <<word>>) \o SplitFrom(s, i + 1, <<>>)
         ELSE SplitFrom(s, i + 1, Append(word, s[i]))

\* str.split()
Split(s) == SplitFrom(s, 1, <<>>)

\* A name of two or more words whose last word is a legal-entity suffix.
EndsInSuffixToken(s) ==
    LET ws == Split(s) IN Len(ws) >= 2 /\ ws[Len(ws)] \in LegalSuffixes

\* CanonicalName: lowercase, single spaces between words, no whitespace at
\* either end, no trailing legal-entity suffix.
IsCanonicalName(s) ==
    /\ \A i \in 1..Len(s) : s[i] = LowerChar(s[i])
    /\ \A i \in 1..Len(s) : IsSpace(s[i]) =>
          /\ s[i] = " "
          /\ i > 1 /\ i < Len(s)
          /\ ~IsSpace(s[i + 1])
    /\ ~EndsInSuffixToken(s)

Str_nordbygg   == <<"n","o","r","d","b","y","g","g">>
Str_norbygg    == <<"n","o","r","b","y","g","g">>
Str_nordbyggAs == <<"n","o","r","d","b","y","g","g"," ","a","s">>
Str_hansa      == <<"h","a","n","s","a">>

\* C1: normalize_customer_name is idempotent: normalizing a normalized name
\* gives the same name, for every raw name.
C1_Idempotent ==
    pc = "renormalized" => renormalized = normalized

\* C2: a name that is not an alias key and does not end in a suffix word
\* preceded by whitespace (a name of one word never does) normalizes to its
\* lowercased, trimmed, whitespace-collapsed form with nothing removed.
C2_NoSuffixNothingRemoved ==
    (/\ pc = "normalized" /\ name # None
     /\ CleanName(name) \notin AliasKeys
     /\ ~EndsInSuffixToken(CleanName(name)))
    => normalized = CleanName(name)

C2_Witness ==
    /\ pc = "normalized"
    /\ name = <<"x","A","S"," ","\t">>
    /\ normalized = <<"x","a","s">>

\* C3 as stated: "nordbygg as" normalizes to "nordbygg" and "hansa" to "hansa".
C3_AsStated ==
    pc = "normalized" =>
        /\ name = Str_nordbyggAs => normalized = Str_nordbygg
        /\ name = Str_hansa => normalized = Str_hansa

\* C3 amended: with the deployed alias table "nordbygg as" normalizes to
\* "norbygg", the value of its alias entry, and "hansa" to "hansa".
C3_NordbyggHansa ==
    pc = "normalized" =>
        /\ name = Str_nordbyggAs => normalized = Str_norbygg
        /\ name = Str_hansa => normalized = Str_hansa

C3_Witness ==
    /\ pc = "normalized"
    /\ name = Str_nordbyggAs
    /\ normalized = Str_norbygg

\* C4: every value normalize_customer_name returns is a CanonicalName.
C4_ReturnsCanonicalName ==
    pc = "normalized" => IsCanonicalName(normalized)

\* ------------------------------------------------------- similarity_score
\* analyze_customer_matches.normalize_name: as the import's normalizer, with
\* no alias lookup.
normalize_name(s) ==
    IF s = None \/ s = <<>> THEN <<>>
    ELSE StripSuffix(CleanName(s))

\* a in b, for two str.
IsSubstring(a, b) ==
    \E i \in 0..(Len(b) - Len(a)) : SubSeq(b, i + 1, i + Len(a)) = a

\* Only the first name is looked for in the second.
FirstContained(n1, n2) == IsSubstring(n1, n2)

\* n1 in n2 or n2 in n1
EitherContains(n1, n2) == IsSubstring(n1, n2) \/ IsSubstring(n2, n1)

\* The first word alone.
WordSetFirst(s) == IF Split(s) = <<>> THEN {} ELSE {Split(s)[1]}

\* set(n.split())
WordSet(s) == {Split(s)[i] : i \in 1..Len(Split(s))}

RECURSIVE Gcd(_, _)
Gcd(a, b) == IF b = 0 THEN a ELSE Gcd(b, a % b)

\* The float a / b, kept as the fraction in lowest terms <<numerator, denominator>>.
Ratio(a, b) == <<a \div Gcd(a, b), b \div Gcd(a, b)>>

similarity_score(a, b) ==
    LET n1     == normalize_name(a)
        n2     == normalize_name(b)
        words1 == WordSet(n1)
        words2 == WordSet(n2)
        overlap == Cardinality(words1 \cap words2)
        total   == Cardinality(words1 \cup words2)
    IN  IF n1 = n2 THEN <<1, 1>>
        ELSE IF EitherContains(n1, n2) THEN <<9, 10>>
        ELSE IF words1 = {} \/ words2 = {} THEN <<0, 1>>
        ELSE IF total > 0 THEN Ratio(overlap, total) ELSE <<0, 1>>

\* Names handed to similarity_score: up to MaxScoreWords of these words,
\* separated by single spaces, and None.  The last word is a capital sigma.
ScoreWords == {<<"a","b">>, <<"b">>, <<"c">>, <<"A","S">>, <<"Σ">>}

RECURSIVE NamesOfWords(_)
NamesOfWords(n) ==
    IF n = 0 THEN {<<>>}
    ELSE NamesOfWords(n - 1) \cup
         {(IF s = <<>> THEN s ELSE s \o <<" ">>) \o w :
             s \in NamesOfWords(n - 1), w \in ScoreWords}

ScoreNames == NamesOfWords(MaxScoreWords) \cup {None}

InitScore ==
    /\ pc = "names"
    /\ name1 \in ScoreNames /\ name2 \in ScoreNames
    /\ score = <<0, 1>> /\ score_rev = <<0, 1>>
    /\ NormIdle /\ ResIdle /\ AssignIdle /\ ImportIdle /\ ReportIdle
    /\ LoopIdle /\ ReadIdle /\ CustIdle /\ AgreeIdle

\* score = similarity_score(name1, name2)
Score ==
    /\ pc = "names"
    /\ score' = similarity_score(name1, name2)
    /\ pc' = "scored"
    /\ UNCHANGED <<name1, name2, score_rev, normVars, resVars, assignVars,
                   importVars, reportVars, moreVars>>

\* score_rev = similarity_score(name2, name1)
ScoreReversed ==
    /\ pc = "scored"
    /\ score_rev' = similarity_score(name2, name1)
    /\ pc' = "scored_both"
    /\ UNCHANGED <<name1, name2, score, normVars, resVars, assignVars,
                   importVars, reportVars, moreVars>>

NextScore == Score \/ ScoreReversed

SpecScore == InitScore /\ [][NextScore]_vars

\* C6: similarity_score is symmetric: the score of (a, b) equals the score
\* of (b, a) for all names, the empty name included.
C6_Symmetric ==
    pc = "scored_both" => score = score_rev

C6_Witness ==
    /\ pc = "scored_both"
    /\ name1 = <<"a","b"," ","c">> /\ name2 = <<"b">>
    /\ score = <<9, 10>> /\ score_rev = <<9, 10>>

\* ------------------------------------- load_customer_cache, find_customer
\* The orders in which a SELECT without ORDER BY may return n rows.
RowOrders(n) ==
    {f \in [1..n -> 1..n] : \A i, j \in 1..n : f[i] = f[j] => i = j}

\* Names of the customers table in a run about the spreadsheet name k: the
\* alias value, the same with a suffix, and another name.
DbNames(k) == {CUSTOMER_ALIASES[k], CUSTOMER_ALIASES[k] \o <<" ","A","S">>,
               <<"x">>}

Str_veidekke_entreprenor ==
    <<"v","e","i","d","e","k","k","e"," ","e","n","t","r","e","p","r","e","n","ø","r">>
Str_Veidekke_AS    == <<"V","e","i","d","e","k","k","e"," ","A","S">>
Str_VEIDEKKE__Bygg == <<"V","E","I","D","E","K","K","E"," "," ","B","y","g","g">>

\* Raw spellings of one customer as the spreadsheet has them.
VeidekkeNames == {Str_Veidekke_AS, Str_veidekke_entreprenor, Str_VEIDEKKE__Bygg}

\* Names find_customer is called with in that run: the key, its alias value,
\* a name the table may hold, a name it never holds and that contains one
\* it may hold, and, in a run about that customer, the raw spellings.
LookupNames(k) ==
    {k, CUSTOMER_ALIASES[k], <<"x">>, <<"x"," ","y">>}
    \cup (IF CUSTOMER_ALIASES[k] = Str_veidekke_entreprenor
          THEN VeidekkeNames ELSE {})

\* normalize_customer_name of the names of these runs, computed once.
RECURSIVE NormalizedDict(_)
NormalizedDict(names) ==
    IF names = {} THEN <<>>
    ELSE LET n == CHOOSE n \in names : TRUE
         IN  (n :> normalize_customer_name(n)) @@ NormalizedDict(names \ {n})

\* The same for the names of the runs about the first i alias entries.
RECURSIVE NormalizedOfRuns(_)
NormalizedOfRuns(i) ==
    IF i = 0 THEN <<>>
    ELSE NormalizedDict(DbNames(AliasEntries[i][1])
                            \cup LookupNames(AliasEntries[i][1]))
             @@ NormalizedOfRuns(i - 1)

NormalizedOf == NormalizedOfRuns(Len(AliasEntries))

\* normalize_customer_name(n), looked up when n is a name of these runs.
Normalized(n) ==
    IF n \in DOMAIN NormalizedOf THEN NormalizedOf[n]
    ELSE normalize_customer_name(n)

\* The first row of a key kept.
CachePutFirst(cache, key, row) ==
    [k \in DOMAIN cache \cup {key} |-> IF k \in DOMAIN cache THEN cache[k] ELSE row]

\* _customer_cache[normalized] = (customer_id, name)
CachePut(cache, key, row) ==
    [k \in DOMAIN cache \cup {key} |-> IF k = key THEN row ELSE cache[k]]

\* The loop over cur.fetchall(), from row i on.
RECURSIVE LoadRows(_, _, _)
LoadRows(cache, rows, i) ==
    IF i > Len(rows) THEN cache
    ELSE LoadRows(CachePut(cache, Normalized(rows[i][2]), rows[i]),
                  rows, i + 1)

\* a >= b for two scores.
ScoreAtLeast(a, b) == a[1] * b[2] >= b[1] * a[2]

\* A lookup that falls back on a cached customer scoring 0.6 or more.
CacheLookupFuzzy(cache, n) ==
    LET near == {k \in DOMAIN cache :
                    ScoreAtLeast(similarity_score(n, cache[k][2]), <<6, 10>>)}
    IN  IF normalize_customer_name(n) \in DOMAIN cache
        THEN cache[normalize_customer_name(n)]
        ELSE IF near # {} THEN cache[CHOOSE k \in near : TRUE]
        ELSE None

\* The value find_customer returns for a name, given the cache.
CacheLookup(cache, n) ==
    IF Normalized(n) \in DOMAIN cache
    THEN cache[Normalized(n)]
    ELSE None

InitResolve ==
    /\ pc = "run"
    /\ alias_key \in AliasKeys
    /\ customers = <<>> /\ fetched = <<>>
    /\ customer_cache = <<>> /\ customer_cache_loaded = FALSE
    /\ customer_name = <<>> /\ found = None
    /\ NormIdle /\ ScoreIdle /\ AssignIdle /\ ImportIdle /\ ReportIdle
    /\ LoopIdle /\ ReadIdle /\ CustIdle /\ AgreeIdle

\* The ids of a list of rows.
RowIds(rows) == {rows[i][1] : i \in 1..Len(rows)}

\* str(uuid.uuid4()): an id that no row of the given lists has.
FreshId(ids) == 1 + (CHOOSE m \in ids \cup {0} : \A x \in ids : x <= m)

\* One row is added to the customers table (the API), before or after the
\* cache was loaded.
InsertCustomer(n) ==
    /\ FreshId(RowIds(customers) \cup RowIds(fetched)) <= MaxCustomers
    /\ customers' = Append(customers,
                           <<FreshId(RowIds(customers) \cup RowIds(fetched)), n>>)
    /\ UNCHANGED <<pc, alias_key, fetched, customer_cache, customer_cache_loaded,
                   customer_name, found, normVars, scoreVars, assignVars,
                   importVars, reportVars, moreVars>>

\* The customer lists a run of import_customers.py may read from its sheet.
CustomerLists(k) == UNION {[1..n -> DbNames(k)] : n \in 0..MaxCustomers}

\* A run of import_customers.py commits, before or after the cache was
\* loaded: clear_customers deletes every row of the table and
\* insert_customers puts in the customers of the sheet, each with a new id,
\* in one transaction.
ReplaceCustomers(list) ==
    /\ FreshId(RowIds(customers) \cup RowIds(fetched)) + Len(list) - 1 <= MaxCustomers
    /\ customers' = [i \in 1..Len(list) |->
                        <<FreshId(RowIds(customers) \cup RowIds(fetched)) + i - 1,
                          list[i]>>]
    /\ customers' # customers
    /\ UNCHANGED <<pc, alias_key, fetched, customer_cache, customer_cache_loaded,
                   customer_name, found, normVars, scoreVars, assignVars,
                   importVars, reportVars, moreVars>>

\* The query run and the rows put in on every call.
LoadEffectReload ==
    \E f \in RowOrders(Len(customers)) :
        /\ fetched' = [i \in 1..Len(customers) |-> customers[f[i]]]
        /\ customer_cache' = LoadRows(customer_cache, fetched', 1)
        /\ customer_cache_loaded' = TRUE

\* The body of load_customer_cache: nothing when the cache is loaded, else
\* every row the query returns, in the order it returns them, is put in.
LoadEffect ==
    IF customer_cache_loaded
    THEN UNCHANGED <<fetched, customer_cache, customer_cache_loaded>>
    ELSE \E f \in RowOrders(Len(customers)) :
            /\ fetched' = [i \in 1..Len(customers) |-> customers[f[i]]]
            /\ customer_cache' = LoadRows(customer_cache, fetched', 1)
            /\ customer_cache_loaded' = TRUE

load_customer_cache ==
    /\ LoadEffect
    /\ UNCHANGED <<pc, alias_key, customers, customer_name, found,
                   normVars, scoreVars, assignVars, importVars, reportVars, moreVars>>

find_customer(n) ==
    /\ LoadEffect
    /\ customer_name' = n
    /\ found' = CacheLookup(customer_cache', n)
    /\ pc' = "found"
    /\ UNCHANGED <<alias_key, customers, normVars, scoreVars, assignVars,
                   importVars, reportVars, moreVars>>

NextResolve ==
    \/ \E n \in DbNames(alias_key) : InsertCustomer(n)
    \/ \E list \in CustomerLists(alias_key) : ReplaceCustomers(list)
    \/ load_customer_cache
    \/ \E n \in LookupNames(alias_key) : find_customer(n)

SpecResolve == InitResolve /\ [][NextResolve]_vars

\* Row i was loaded, its name is the alias value of key k, and no row loaded
\* after it has the same normalized name.
LoadedAsValueOf(i, k) ==
    /\ fetched[i][2] = CUSTOMER_ALIASES[k]
    /\ \A j \in (i + 1)..Len(fetched) :
          normalize_customer_name(fetched[j][2]) # normalize_customer_name(fetched[i][2])

\* C5 as stated: for every alias key, once a customer named by the key's
\* alias value is loaded, resolving the key returns that customer and the
\* similarity score of the key against it is 1.0.
C5_AsStated ==
    (pc = "found" /\ customer_name \in AliasKeys) =>
        \A i \in 1..Len(fetched) :
            fetched[i][2] = CUSTOMER_ALIASES[customer_name] =>
                /\ found = fetched[i]
                /\ similarity_score(customer_name, fetched[i][2]) = <<1, 1>>

\* C5 amended: for every alias key, once a customer named by the key's alias
\* value is loaded and no customer loaded after it has the same normalized
\* name, find_customer of the key returns that customer.  (No score is part
\* of the result; similarity_score applies no aliases.)
C5_AliasRoundTrip ==
    (pc = "found" /\ customer_name \in AliasKeys) =>
        \A i \in 1..Len(fetched) :
            LoadedAsValueOf(i, customer_name) => found = fetched[i]

C5_Witness ==
    /\ pc = "found"
    /\ customer_name = <<"s","e","b","y"," ","a","s","/"," ","v","e","i","d","e","k","k","e"," ","a","s">>
    /\ Len(fetched) = 2
    /\ LoadedAsValueOf(2, customer_name)
    /\ normalize_customer_name(fetched[1][2]) = normalize_customer_name(fetched[2][2])
    /\ found = fetched[2]

\* --------------------------------------------------- assign_offer_numbers
\* datetime(year, month, day, hour, minute, second, microsecond,
\* tzinfo=timezone.utc): its seven fields.  Every datetime of the import
\* carries the time zone UTC (clean_date, datetime.now(timezone.utc)).
DateTime(year, month, day, hour, minute, second, microsecond) ==
    <<year, month, day, hour, minute, second, microsecond>>

\* datetime(year, month, day, tzinfo=timezone.utc): midnight.
Date(year, month, day) == DateTime(year, month, day, 0, 0, 0, 0)

\* datetime(9999, 12, 31, tzinfo=timezone.utc), the sort key of an offer
\* with no sent_date.
FarFuture == Date(9999, 12, 31)

\* a < b for two datetimes of one time zone: the first field that differs
\* decides, the time of day included.
DateLess(a, b) ==
    IF a[1] # b[1] THEN a[1] < b[1]
    ELSE IF a[2] # b[2] THEN a[2] < b[2]
    ELSE IF a[3] # b[3] THEN a[3] < b[3]
    ELSE IF a[4] # b[4] THEN a[4] < b[4]
    ELSE IF a[5] # b[5] THEN a[5] < b[5]
    ELSE IF a[6] # b[6] THEN a[6] < b[6]
    ELSE a[7] < b[7]

DigitChars == <<"0","1","2","3","4","5","6","7","8","9">>

\* The characters c.isdigit() takes: <<c, ord(c), int(c)>>, with -1 in the
\* place of int(c) for a digit that is no decimal digit (superscripts,
\* subscripts, circled digits), which int(), float() and \d do not take.
DigitRows == <<
    <<"0", 48, 0>>, <<"1", 49, 1>>, <<"2", 50, 2>>, <<"3", 51, 3>>, <<"4", 52, 4>>, <<"5", 53, 5>>,
    <<"6", 54, 6>>, <<"7", 55, 7>>, <<"8", 56, 8>>, <<"9", 57, 9>>, <<"²", 178, -1>>, <<"³", 179, -1>>,
    <<"¹", 185, -1>>, <<"۰", 1776, 0>>, <<"۱", 1777, 1>>, <<"۲", 1778, 2>>, <<"۳", 1779, 3>>, <<"۴", 1780, 4>>,
    <<"۵", 1781, 5>>, <<"۶", 1782, 6>>, <<"۷", 1783, 7>>, <<"۸", 1784, 8>>, <<"۹", 1785, 9>>, <<"߀", 1984, 0>>,
    <<"߁", 1985, 1>>, <<"߂", 1986, 2>>, <<"߃", 1987, 3>>, <<"߄", 1988, 4>>, <<"߅", 1989, 5>>, <<"߆", 1990, 6>>,
    <<"߇", 1991, 7>>, <<"߈", 1992, 8>>, <<"߉", 1993, 9>>, <<"০", 2534, 0>>, <<"১", 2535, 1>>, <<"২", 2536, 2>>,
    <<"৩", 2537, 3>>, <<"৪", 2538, 4>>, <<"৫", 2539, 5>>, <<"৬", 2540, 6>>, <<"৭", 2541, 7>>, <<"৮", 2542, 8>>,
    <<"৯", 2543, 9>>, <<"૦", 2790, 0>>, <<"૧", 2791, 1>>, <<"૨", 2792, 2>>, <<"૩", 2793, 3>>, <<"૪", 2794, 4>>,
    <<"૫", 2795, 5>>, <<"૬", 2796, 6>>, <<"૭", 2797, 7>>, <<"૮", 2798, 8>>, <<"૯", 2799, 9>>, <<"௦", 3046, 0>>,
    <<"௧", 3047, 1>>, <<"௨", 3048, 2>>, <<"௩", 3049, 3>>, <<"௪", 3050, 4>>, <<"௫", 3051, 5>>, <<"௬", 3052, 6>>,
    <<"௭", 3053, 7>>, <<"௮", 3054, 8>>, <<"௯", 3055, 9>>, <<"೦", 3302, 0>>, <<"೧", 3303, 1>>, <<"೨", 3304, 2>>,
    <<"೩", 3305, 3>>, <<"೪", 3306, 4>>, <<"೫", 3307, 5>>, <<"೬", 3308, 6>>, <<"೭", 3309, 7>>, <<"೮", 3310, 8>>,
    <<"೯", 3311, 9>>, <<"෦", 3558, 0>>, <<"෧", 3559, 1>>, <<"෨", 3560, 2>>, <<"෩", 3561, 3>>, <<"෪", 3562, 4>>,
    <<"෫", 3563, 5>>, <<"෬", 3564, 6>>, <<"෭", 3565, 7>>, <<"෮", 3566, 8>>, <<"෯", 3567, 9>>, <<"໐", 3792, 0>>,
    <<"໑", 3793, 1>>, <<"໒", 3794, 2>>, <<"໓", 3795, 3>>, <<"໔", 3796, 4>>, <<"໕", 3797, 5>>, <<"໖", 3798, 6>>,
    <<"໗", 3799, 7>>, <<"໘", 3800, 8>>, <<"໙", 3801, 9>>, <<"႐", 4240, 0>>, <<"႑", 4241, 1>>, <<"႒", 4242, 2>>,
    <<"႓", 4243, 3>>, <<"႔", 4244, 4>>, <<"႕", 4245, 5>>, <<"႖", 4246, 6>>, <<"႗", 4247, 7>>, <<"႘", 4248, 8>>,
    <<"႙", 4249, 9>>, <<"០", 6112, 0>>, <<"១", 6113, 1>>, <<"២", 6114, 2>>, <<"៣", 6115, 3>>, <<"៤", 6116, 4>>,
    <<"៥", 6117, 5>>, <<"៦", 6118, 6>>, <<"៧", 6119, 7>>, <<"៨", 6120, 8>>, <<"៩", 6121, 9>>, <<"᧐", 6608, 0>>,
    <<"᧑", 6609, 1>>, <<"᧒", 6610, 2>>, <<"᧓", 6611, 3>>, <<"᧔", 6612, 4>>, <<"᧕", 6613, 5>>, <<"᧖", 6614, 6>>,
    <<"᧗", 6615, 7>>, <<"᧘", 6616, 8>>, <<"᧙", 6617, 9>>, <<"᧚", 6618, -1>>, <<"᪀", 6784, 0>>, <<"᪁", 6785, 1>>,
    <<"᪂", 6786, 2>>, <<"᪃", 6787, 3>>, <<"᪄", 6788, 4>>, <<"᪅", 6789, 5>>, <<"᪆", 6790, 6>>, <<"᪇", 6791, 7>>,
    <<"᪈", 6792, 8>>, <<"᪉", 6793, 9>>, <<"᪐", 6800, 0>>, <<"᪑", 6801, 1>>, <<"᪒", 6802, 2>>, <<"᪓", 6803, 3>>,
    <<"᪔", 6804, 4>>, <<"᪕", 6805, 5>>, <<"᪖", 6806, 6>>, <<"᪗", 6807, 7>>, <<"᪘", 6808, 8>>, <<"᪙", 6809, 9>>,
    <<"᮰", 7088, 0>>, <<"᮱", 7089, 1>>, <<"᮲", 7090, 2>>, <<"᮳", 7091, 3>>, <<"᮴", 7092, 4>>, <<"᮵", 7093, 5>>,
    <<"᮶", 7094, 6>>, <<"᮷", 7095, 7>>, <<"᮸", 7096, 8>>, <<"᮹", 7097, 9>>, <<"₀", 8320, -1>>, <<"₁", 8321, -1>>,
    <<"₂", 8322, -1>>, <<"₃", 8323, -1>>, <<"₄", 8324, -1>>, <<"₅", 8325, -1>>, <<"₆", 8326, -1>>, <<"₇", 8327, -1>>,
    <<"₈", 8328, -1>>, <<"₉", 8329, -1>>, <<"⒈", 9352, -1>>, <<"⒉", 9353, -1>>, <<"⒊", 9354, -1>>, <<"⒋", 9355, -1>>,
    <<"⒌", 9356, -1>>, <<"⒍", 9357, -1>>, <<"⒎", 9358, -1>>, <<"⒏", 9359, -1>>, <<"⒐", 9360, -1>>, <<"⓪", 9450, -1>>,
    <<"⓵", 9461, -1>>, <<"⓶", 9462, -1>>, <<"⓷", 9463, -1>>, <<"⓸", 9464, -1>>, <<"⓹", 9465, -1>>, <<"⓺", 9466, -1>>,
    <<"⓻", 9467, -1>>, <<"⓼", 9468, -1>>, <<"⓽", 9469, -1>>, <<"⓿", 9471, -1>>, <<"➀", 10112, -1>>, <<"➁", 10113, -1>>,
    <<"➂", 10114, -1>>, <<"➃", 10115, -1>>, <<"➄", 10116, -1>>, <<"➅", 10117, -1>>, <<"➆", 10118, -1>>, <<"➇", 10119, -1>>,
    <<"➈", 10120, -1>>, <<"➊", 10122, -1>>, <<"➋", 10123, -1>>, <<"➌", 10124, -1>>, <<"➍", 10125, -1>>, <<"➎", 10126, -1>>,
    <<"➏", 10127, -1>>, <<"➐", 10128, -1>>, <<"➑", 10129, -1>>, <<"➒", 10130, -1>>, <<"꣐", 43216, 0>>, <<"꣑", 43217, 1>>,
    <<"꣒", 43218, 2>>, <<"꣓", 43219, 3>>, <<"꣔", 43220, 4>>, <<"꣕", 43221, 5>>, <<"꣖", 43222, 6>>, <<"꣗", 43223, 7>>,
    <<"꣘", 43224, 8>>, <<"꣙", 43225, 9>>, <<"꧐", 43472, 0>>, <<"꧑", 43473, 1>>, <<"꧒", 43474, 2>>, <<"꧓", 43475, 3>>,
    <<"꧔", 43476, 4>>, <<"꧕", 43477, 5>>, <<"꧖", 43478, 6>>, <<"꧗", 43479, 7>>, <<"꧘", 43480, 8>>, <<"꧙", 43481, 9>>,
    <<"꧰", 43504, 0>>, <<"꧱", 43505, 1>>, <<"꧲", 43506, 2>>, <<"꧳", 43507, 3>>, <<"꧴", 43508, 4>>, <<"꧵", 43509, 5>>,
    <<"꧶", 43510, 6>>, <<"꧷", 43511, 7>>, <<"꧸", 43512, 8>>, <<"꧹", 43513, 9>>, <<"꯰", 44016, 0>>, <<"꯱", 44017, 1>>,
    <<"꯲", 44018, 2>>, <<"꯳", 44019, 3>>, <<"꯴", 44020, 4>>, <<"꯵", 44021, 5>>, <<"꯶", 44022, 6>>, <<"꯷", 44023, 7>>,
    <<"꯸", 44024, 8>>, <<"꯹", 44025, 9>> >>

\* ord(c) for the characters str.isdigit() takes.
DigitOrdOf == DictOf(DigitRows, 2, 1, Len(DigitRows))

\* The rows of the decimal digits (Unicode category Nd).
DecimalRows == SelectSeq(DigitRows, LAMBDA r : r[3] # -1)

\* int(c) for the decimal digits.
DecimalValueOf == DictOf(DecimalRows, 3, 1, Len(DecimalRows))

\* int(c) of a decimal digit.
DigitValue(c) == DecimalValueOf[c]

\* The regular expression class \d of a str pattern and the digits int()
\* and float() read: the decimal digits of every script.
IsDecimal(c) == c \in DOMAIN DecimalValueOf

\* c.isdigit(): the decimal digits and the other characters of numeric type
\* Digit.
IsDigit(c) == c \in DOMAIN DigitOrdOf

\* ord(c) for a character str.isdigit() takes.
DigitOrd(c) == DigitOrdOf[c]

\* a < b for two str of digits: the first differing character decides, by
\* its code point, and a proper prefix is smaller.
RECURSIVE StrLess(_, _)
StrLess(a, b) ==
    IF b = <<>> THEN FALSE
    ELSE IF a = <<>> THEN TRUE
    ELSE IF a[1] # b[1] THEN DigitOrd(a[1]) < DigitOrd(b[1])
    ELSE StrLess(Tail(a), Tail(b))

\* sort_key(o)
SortKey(o) ==
    IF o.sent_date = None THEN <<FarFuture, o.external_reference>>
    ELSE <<o.sent_date, o.external_reference>>

\* k1 < k2 for two sort keys (tuples compare by their first differing item).
KeyLess(k1, k2) ==
    \/ DateLess(k1[1], k2[1])
    \/ k1[1] = k2[1] /\ StrLess(k1[2], k2[2])

\* Input position i put in front of the list, whatever its key.
InsertByKeyFront(batch, order, i) == <<i>> \o order

\* Input position i put into a list of positions that is sorted by key,
\* after the positions whose key is not greater.
RECURSIVE InsertByKey(_, _, _)
InsertByKey(batch, order, i) ==
    IF order = <<>> THEN <<i>>
    ELSE IF KeyLess(SortKey(batch[i]), SortKey(batch[Head(order)]))
         THEN <<i>> \o order
         ELSE <<Head(order)>> \o InsertByKey(batch, Tail(order), i)

RECURSIVE SortFrom(_, _, _)
SortFrom(batch, i, order) ==
    IF i > Len(batch) THEN order
    ELSE SortFrom(batch, i + 1, InsertByKey(batch, order, i))

\* The input kept in its order.
SortOrderUnsorted(batch) == [i \in 1..Len(batch) |-> i]

\* sorted(offers, key=sort_key), as the input positions in sorted order.  The
\* sort is stable: offers with equal keys keep their input order.
SortOrder(batch) == SortFrom(batch, 1, <<>>)

\* created_at looked at before sent_date.
OfferYearCreatedFirst(o) ==
    IF o.created_at # None THEN o.created_at[1]
    ELSE IF o.sent_date # None THEN o.sent_date[1]
    ELSE now_year

\* The year of an offer's number: of sent_date, else of created_at, else of now.
OfferYear(o) ==
    IF o.sent_date # None THEN o.sent_date[1]
    ELSE IF o.created_at # None THEN o.created_at[1]
    ELSE now_year

\* One counter for all years.
NextSeqAllYears(year_sequences, year) ==
    LET total[S \in SUBSET DOMAIN year_sequences] ==
            IF S = {} THEN 0
            ELSE LET y == CHOOSE y \in S : TRUE
                 IN  year_sequences[y] + total[S \ {y}]
    IN  total[DOMAIN year_sequences] + 1

\* The counter read and not advanced.
NextSeqSame(year_sequences, year) ==
    IF year \in DOMAIN year_sequences THEN year_sequences[year] ELSE 0

\* year_sequences.get(year, 0) + 1
NextSeq(year_sequences, year) ==
    (IF year \in DOMAIN year_sequences THEN year_sequences[year] ELSE 0) + 1

\* str(n) for n >= 0.
RECURSIVE Digits(_)
Digits(n) ==
    IF n < 10 THEN <<DigitChars[n + 1]>>
    ELSE Digits(n \div 10) \o <<DigitChars[(n % 10) + 1]>>

\* Three digits and no more: the sequence number modulo 1000.
Pad3Wrap(seq) ==
    LET n == seq % 1000
    IN  IF n < 10 THEN <<"0","0">> \o Digits(n)
        ELSE IF n < 100 THEN <<"0">> \o Digits(n)
        ELSE Digits(n)

\* f"{seq:03d}"
Pad3(seq) ==
    IF seq < 10 THEN <<"0","0">> \o Digits(seq)
    ELSE IF seq < 100 THEN <<"0">> \o Digits(seq)
    ELSE Digits(seq)

\* The number written without its year.
FormatNoYear(prefix, year, seq) == prefix \o <<"-">> \o Pad3(seq)

\* f"{company_prefix}-{year}-{seq:03d}"
FormatOfferNumber(prefix, year, seq) ==
    prefix \o <<"-">> \o Digits(year) \o <<"-">> \o Pad3(seq)

\* The loop over sorted_offers from position r on: the offer numbers of the
\* offers at positions r, r + 1, ... of the sorted list.
RECURSIVE AssignFrom(_, _, _, _, _)
AssignFrom(batch, order, r, year_sequences, prefix) ==
    IF r > Len(order) THEN <<>>
    ELSE LET year == OfferYear(batch[order[r]])
             seq  == NextSeq(year_sequences, year)
             ys   == [y \in DOMAIN year_sequences \cup {year} |->
                         IF y = year THEN seq ELSE year_sequences[y]]
         IN  <<FormatOfferNumber(prefix, year, seq)>>
             \o AssignFrom(batch, order, r + 1, ys, prefix)

DEFAULT_COMPANY_ID == "tak"

CompanyPrefix == <<"T","K">>

\* The call assign_offer_numbers(batch, "TK"): the list it returns (the dicts
\* in sorted order) and the batch it was given, whose dicts now carry their
\* offer_number.
AssignResult(batch) ==
    LET order   == SortOrder(batch)
        numbers == AssignFrom(batch, order, 1, <<>>, CompanyPrefix)
    IN  [returned |-> [r \in 1..Len(batch) |->
                          [batch[order[r]] EXCEPT !.offer_number = numbers[r]]],
         batch    |-> [i \in 1..Len(batch) |->
                          [batch[i] EXCEPT !.offer_number =
                              numbers[CHOOSE r \in 1..Len(batch) : order[r] = i]]]]

assign_offer_numbers(batch) == AssignResult(batch).returned

\* Offers of a batch: sent dates in two years, references that are empty or
\* digits, and for an offer with no sent_date a created_at that is absent
\* or given.  read_excel_offers sets created_at to sent_date when there is one;
\* a caller of assign_offer_numbers may hand over an offer created in the year
\* before it was sent.  Three more offers were sent on 1 March 2024, later on
\* the day of another offer, and on the day of the far-future date.
SentDates     == {Date(2023, 11, 20), Date(2024, 1, 15)}
References    == {<<>>, <<"1","0">>, <<"2">>}
CreatedDates  == {None, Date(2023, 12, 1)}
NowYears      == {2024, 2025}

Offers ==
    {[sent_date |-> d, external_reference |-> e, created_at |-> d,
      offer_number |-> <<>>] : d \in SentDates, e \in References}
    \cup
    {[sent_date |-> None, external_reference |-> e, created_at |-> c,
      offer_number |-> <<>>] : e \in References, c \in CreatedDates}
    \cup
    {[sent_date |-> Date(2024, 1, 15), external_reference |-> <<>>,
      created_at |-> Date(2023, 12, 1), offer_number |-> <<>>]}
    \cup
    {[sent_date |-> d, external_reference |-> <<>>, created_at |-> d,
      offer_number |-> <<>>] :
        d \in {Date(2024, 3, 1), DateTime(2024, 1, 15, 9, 30, 0, 0)}}
    \cup
    {[sent_date |-> FarFuture, external_reference |-> <<"2">>,
      created_at |-> FarFuture, offer_number |-> <<>>]}

\* The relation from tie-break key to offer_number of a list of offers.
NumberMap(list) ==
    {<<list[i].external_reference, list[i].offer_number>> : i \in 1..Len(list)}

InitAssign ==
    /\ pc = "batch"
    /\ offers = <<>> /\ sorted_offers = <<>> /\ prev_numbers = {}
    /\ now_year \in NowYears
    /\ NormIdle /\ ResIdle /\ ScoreIdle /\ ImportIdle /\ ReportIdle
    /\ LoopIdle /\ ReadIdle /\ CustIdle /\ AgreeIdle

\* read_excel_offers appends one more offer to the batch.
AppendOffer(o) ==
    /\ pc = "batch" /\ Len(offers) < MaxOffers
    /\ offers' = Append(offers, o)
    /\ UNCHANGED <<pc, now_year, sorted_offers, prev_numbers,
                   normVars, resVars, scoreVars, importVars, reportVars, moreVars>>

\* offers = assign_offer_numbers(offers, company_prefix="TK"); the call
\* writes offer_number into the dicts of the batch.
AssignOfferNumbers ==
    /\ pc \in {"batch", "reordered"}
    /\ LET result == AssignResult(offers)
       IN  /\ sorted_offers' = result.returned
           /\ offers' = result.batch
    /\ prev_numbers' = NumberMap(sorted_offers)
    /\ pc' = IF pc = "batch" THEN "assigned" ELSE "reassigned"
    /\ UNCHANGED <<now_year, normVars, resVars, scoreVars, importVars, reportVars, moreVars>>

\* The same offers are handed over in another order: two of them change places.
Reorder(i, j) ==
    /\ pc \in {"assigned", "reassigned"}
    /\ i < j /\ j <= Len(offers)
    /\ offers' = [offers EXCEPT ![i] = offers[j], ![j] = offers[i]]
    /\ pc' = "reordered"
    /\ UNCHANGED <<now_year, sorted_offers, prev_numbers,
                   normVars, resVars, scoreVars, importVars, reportVars, moreVars>>

NextAssign ==
    \/ \E o \in Offers : AppendOffer(o)
    \/ AssignOfferNumbers
    \/ \E i, j \in 1..MaxOffers : Reorder(i, j)

SpecAssign == InitAssign /\ [][NextAssign]_vars

\* s.split("-")
RECURSIVE SplitDash(_, _, _)
SplitDash(s, i, part) ==
    IF i > Len(s) THEN <<part>>
    ELSE IF s[i] = "-" THEN <<part>> \o SplitDash(s, i + 1, <<>>)
    ELSE SplitDash(s, i + 1, Append(part, s[i]))

\* int(digits)
RECURSIVE ToInt(_)
ToInt(digits) ==
    IF digits = <<>> THEN 0
    ELSE 10 * ToInt(SubSeq(digits, 1, Len(digits) - 1))
         + DigitValue(digits[Len(digits)])

\* int(o["offer_number"].split("-")[1]), the year main counts offers by, and
\* the sequence number after it.
NumberYear(o) == ToInt(SplitDash(o.offer_number, 1, <<>>)[2])
NumberSeq(o)  == ToInt(SplitDash(o.offer_number, 1, <<>>)[3])

\* The years and the sequence numbers of a list of numbered offers.
RECURSIVE YearsOf(_)
YearsOf(list) ==
    IF list = <<>> THEN <<>> ELSE <<NumberYear(Head(list))>> \o YearsOf(Tail(list))

RECURSIVE SeqsOf(_)
SeqsOf(list) ==
    IF list = <<>> THEN <<>> ELSE <<NumberSeq(Head(list))>> \o SeqsOf(Tail(list))

Assigned == pc \in {"assigned", "reassigned"}

Str_TK_2024_001 == <<"T","K","-","2","0","2","4","-","0","0","1">>
Str_TK_2024_002 == <<"T","K","-","2","0","2","4","-","0","0","2">>
Str_TK_2024_003 == <<"T","K","-","2","0","2","4","-","0","0","3">>

\* C7: for any batch and any reordering of it, assign_offer_numbers gives the
\* same relation from tie-break key (external_reference) to offer_number,
\* also when offers share their (sent_date, external_reference) pair.
C7_SameNumbersInAnyOrder ==
    pc = "reassigned" => NumberMap(sorted_offers) = prev_numbers

C7_Witness ==
    /\ pc = "reassigned"
    /\ Len(offers) = 3
    /\ \A i \in 1..3 : offers[i].sent_date = None /\ offers[i].external_reference = <<>>
    /\ offers[1].created_at = None /\ offers[2].created_at # None
    /\ Cardinality(prev_numbers) = 3
    /\ NumberMap(sorted_offers) = prev_numbers

\* C8: after assign_offer_numbers, for every year some offer was numbered
\* in, the sequence numbers of that year's offers are exactly 1..n, n the
\* number of offers of that year.
C8_PerYearReset ==
    Assigned =>
        LET years == YearsOf(sorted_offers)
            seqs  == SeqsOf(sorted_offers)
        IN  \A i \in 1..Len(sorted_offers) :
                LET same == {j \in 1..Len(sorted_offers) : years[j] = years[i]}
                IN  {seqs[j] : j \in same} = 1..Cardinality(same)

C8_Witness ==
    /\ pc = "assigned"
    /\ Len(sorted_offers) = 3
    /\ NumberYear(sorted_offers[1]) = 2023 /\ NumberSeq(sorted_offers[1]) = 1
    /\ NumberYear(sorted_offers[2]) = 2024 /\ NumberSeq(sorted_offers[2]) = 1
    /\ NumberYear(sorted_offers[3]) = 2024 /\ NumberSeq(sorted_offers[3]) = 2

\* C9: after assign_offer_numbers with one prefix, no two offers of the
\* batch carry the same offer_number.
C9_NoCollision ==
    Assigned =>
        \A i, j \in 1..Len(sorted_offers) :
            i # j => sorted_offers[i].offer_number # sorted_offers[j].offer_number

C9_Witness ==
    /\ pc = "assigned"
    /\ Len(sorted_offers) = 3
    /\ NumberSeq(sorted_offers[1]) = NumberSeq(sorted_offers[2])
    /\ sorted_offers[2].sent_date = sorted_offers[3].sent_date
    /\ sorted_offers[2].external_reference = sorted_offers[3].external_reference
    /\ sorted_offers[2].offer_number # sorted_offers[3].offer_number

\* C10: within one year an earlier sent_date gets the smaller sequence
\* number, equal sent_dates are ordered by external_reference, and an offer
\* with no sent_date comes after every offer that has one: later in the
\* returned list, and with a larger number than the dated offers of its year.
\* An offer sent on 31 December 9999 has the sort date of the offers with no
\* sent_date, and external_reference decides between them.
C10_Chronological ==
    Assigned =>
        LET years == YearsOf(sorted_offers)
            seqs  == SeqsOf(sorted_offers)
        IN  \A i, j \in 1..Len(sorted_offers) :
                LET a == sorted_offers[i]
                    b == sorted_offers[j]
                IN  /\ (/\ a.sent_date # None /\ b.sent_date # None
                        /\ DateLess(a.sent_date, b.sent_date)
                        /\ years[i] = years[j])
                       => seqs[i] < seqs[j]
                    /\ (/\ a.sent_date = b.sent_date
                        /\ StrLess(a.external_reference, b.external_reference)
                        /\ years[i] = years[j])
                       => seqs[i] < seqs[j]
                    /\ (a.sent_date # None /\ b.sent_date = None)
                       => /\ i < j
                          /\ years[i] = years[j] => seqs[i] < seqs[j]

\* The date an offer is sorted by, and a <= b for two offers in that order,
\* read off the fields of the offers.
SortDate(o) == IF o.sent_date = None THEN FarFuture ELSE o.sent_date

NotAfter(a, b) ==
    /\ ~DateLess(SortDate(b), SortDate(a))
    /\ SortDate(a) = SortDate(b) => ~StrLess(b.external_reference, a.external_reference)

\* How many times the offer o occurs in a list.
Occurrences(list, o) == Cardinality({i \in 1..Len(list) : list[i] = o})

\* C11 as stated: the i-th offer assign_offer_numbers returns is the i-th
\* offer of its input.
C11_SameOrderAsInput ==
    Assigned => \A i \in 1..Len(offers) : sorted_offers[i] = offers[i]

\* C11 amended: assign_offer_numbers returns the offers of its input, each
\* carrying its number, in ascending order of (sent_date, or the far-future
\* date when there is none; external_reference), not in the input's order.
C11_ReturnsSortedInput ==
    Assigned =>
        /\ Len(sorted_offers) = Len(offers)
        /\ \A i \in 1..Len(offers) :
              Occurrences(sorted_offers, offers[i]) = Occurrences(offers, offers[i])
        /\ \A i, j \in 1..Len(sorted_offers) :
              i < j => NotAfter(sorted_offers[i], sorted_offers[j])

C11_Witness ==
    /\ pc = "assigned"
    /\ Len(offers) = 3
    /\ offers[1].sent_date = None
    /\ offers[2].sent_date = Date(2024, 1, 15) /\ offers[2].external_reference = <<"2">>
    /\ offers[3].sent_date = Date(2024, 1, 15) /\ offers[3].external_reference = <<"1","0">>
    /\ sorted_offers = <<offers[3], offers[2], offers[1]>>

\* The normalized names of a list of rows.
RECURSIVE NormalizedNames(_)
NormalizedNames(rows) ==
    IF rows = <<>> THEN <<>>
    ELSE <<normalize_customer_name(Head(rows)[2])>> \o NormalizedNames(Tail(rows))

\* The loaded rows whose name normalizes to n.
LoadedAs(n) ==
    LET names == NormalizedNames(fetched)
    IN  {i \in 1..Len(fetched) : names[i] = n}

\* C12: 'Veidekke AS', 'veidekke entreprenør' and 'VEIDEKKE  Bygg' each
\* normalize to 'veidekke entreprenør', and with one loaded customer of that
\* normalized name find_customer returns that customer for each of them.
C12_VeidekkeSameCustomer ==
    (pc = "found" /\ customer_name \in VeidekkeNames) =>
        /\ normalize_customer_name(customer_name) = Str_veidekke_entreprenor
        /\ \A i \in 1..Len(fetched) :
              LoadedAs(Str_veidekke_entreprenor) = {i} => found = fetched[i]

C12_Witness ==
    /\ pc = "found"
    /\ customer_name = Str_VEIDEKKE__Bygg
    /\ Len(fetched) = 2
    /\ LoadedAs(Str_veidekke_entreprenor) = {2}
    /\ fetched[2][2] = Str_veidekke_entreprenor \o <<" ","A","S">>
    /\ found = fetched[2]

\* C13: once load_customer_cache has completed, no later step (a further
\* load_customer_cache, a find_customer, a change of the customers table)
\* changes the cache or unsets its loaded flag.
C13_LoadOnceSnapshot ==
    [][customer_cache_loaded =>
          customer_cache' = customer_cache /\ customer_cache_loaded']_vars

C13_Witness ==
    /\ pc = "found"
    /\ customer_cache_loaded
    /\ Len(fetched) = 1 /\ Len(customers) = 2
    /\ customer_name = customers[2][2]
    /\ customer_name # customers[1][2]
    /\ found = None

\* C14: find_customer returns a cached customer exactly when the normalized
\* name is a key of the cache, and then the customer stored under that key,
\* which is a loaded row of the same normalized name; else it returns None,
\* whatever the similarity of the name to the loaded names.
C14_ExactMatchOnly ==
    pc = "found" =>
        LET n    == normalize_customer_name(customer_name)
            same == LoadedAs(n)
        IN  /\ (found # None) <=> (n \in DOMAIN customer_cache)
            /\ n \in DOMAIN customer_cache => found = customer_cache[n]
            /\ same = {} => found = None
            /\ same # {} => \E i \in same : found = fetched[i]

C14_Witness ==
    /\ pc = "found"
    /\ customer_name = <<"x"," ","y">>
    /\ Len(fetched) = 2
    /\ fetched[1][2] = <<"x">>
    /\ similarity_score(customer_name, fetched[1][2]) = <<9, 10>>
    /\ found = None

\* C17: for None, for the empty string and for a string of whitespace only,
\* normalize_customer_name returns the empty string.
C17_EmptyInputs ==
    (/\ pc = "normalized"
     /\ name = None \/ \A i \in 1..Len(name) : IsSpace(name[i]))
    => normalized = <<>>

C17_Witness ==
    /\ pc = "normalized"
    /\ name = <<"\t"," ","\t">>
    /\ normalized = <<>>

\* C18: after load_customer_cache the cache entry of every normalized name
\* holds the row that came last, among the rows of that normalized name, in
\* the sequence the query returned, and find_customer of a name with that
\* normalized form returns that row.
C18_LastWriterWins ==
    customer_cache_loaded =>
        LET names  == NormalizedNames(fetched)
            lookup == normalize_customer_name(customer_name)
        IN  \A i \in 1..Len(fetched) :
                (\A j \in (i + 1)..Len(fetched) : names[j] # names[i]) =>
                    /\ names[i] \in DOMAIN customer_cache
                    /\ customer_cache[names[i]] = fetched[i]
                    /\ (pc = "found" /\ lookup = names[i]) => found = fetched[i]

C18_Witness ==
    /\ pc = "found"
    /\ Len(fetched) = 2
    /\ fetched[1][2] = CUSTOMER_ALIASES[alias_key]
    /\ fetched[2][2] = CUSTOMER_ALIASES[alias_key] \o <<" ","A","S">>
    /\ fetched[2][1] = 1
    /\ customer_name = CUSTOMER_ALIASES[alias_key]
    /\ found = fetched[2]

\* ------------------------------------------------ main of import_offers.py
\* offer["customer_id"], offer["matched_customer_name"] = customer_match
WithCustomer(o, customer_match) ==
    [f \in DOMAIN o \cup {"customer_id", "matched_customer_name"} |->
        IF f = "customer_id" THEN customer_match[1]
        ELSE IF f = "matched_customer_name" THEN customer_match[2]
        ELSE o[f]]

\* The loop of insert_offers from position i on: the list importable.
RECURSIVE ImportableFrom(_, _, _)
ImportableFrom(cache, list, i) ==
    IF i > Len(list) THEN <<>>
    ELSE LET customer_match == CacheLookup(cache, list[i].customer_name)
         IN  (IF customer_match # None
              THEN <<WithCustomer(list[i], customer_match)>> ELSE <<>>)
             \o ImportableFrom(cache, list, i + 1)

\* The loop with no else branch: an offer with no match is put nowhere.
SkippedFromLost(cache, list, i) == <<>>

\* The loop of insert_offers from position i on: the list skipped.
RECURSIVE SkippedFrom(_, _, _)
SkippedFrom(cache, list, i) ==
    IF i > Len(list) THEN <<>>
    ELSE (IF CacheLookup(cache, list[i].customer_name) # None
          THEN <<>> ELSE <<list[i]>>)
         \o SkippedFrom(cache, list, i + 1)

\* The caller's list after the loop: the dicts with a match carry it.
OffersAfter(cache, list) ==
    [i \in 1..Len(list) |->
        IF CacheLookup(cache, list[i].customer_name) # None
        THEN WithCustomer(list[i], CacheLookup(cache, list[i].customer_name))
        ELSE list[i]]

\* One tuple of values_to_insert, by column; the columns the model's offers
\* have.  offer_number and external_reference are no columns of the INSERT.
InsertRow(o) ==
    [id |-> o.id, title |-> o.title, customer_id |-> o.customer_id,
     customer_name |-> o.matched_customer_name, company_id |-> o.company_id,
     sent_date |-> o.sent_date, created_at |-> o.created_at]

\* One row of skipped_offers.csv.
SkippedRow(o) == [customer_name |-> o.customer_name, title |-> o.title]

\* skipped_offers.csv as an earlier run left it.
EarlierFile == <<[customer_name |-> <<"y">>, title |-> <<"T","0">>]>>

\* The spreadsheet names of a run of the import, an alias key and another
\* name, and the names of the customers table: each spreadsheet name has a
\* customer or has none, as the table happens to be.
ImportKeys       == {<<"p","e","a","b">>}
ImportNames(k)   == {k, <<"x">>}
ImportDbNames(k) == {CUSTOMER_ALIASES[k] \o <<" ","A","S">>, <<"x">>}

\* The offers read_excel_offers makes of the next row: created_at is
\* sent_date, or the time of reading when there is none.
ImportOffers(k, n, now) ==
    {[id |-> n, title |-> <<"T", DigitChars[n + 1]>>, customer_name |-> c,
      company_id |-> DEFAULT_COMPANY_ID,
      sent_date |-> d, external_reference |-> <<>>,
      created_at |-> IF d = None THEN Date(now, 1, 1) ELSE d,
      offer_number |-> <<>>] :
        c \in ImportNames(k), d \in {Date(2024, 1, 15), None}}

\* The rows of the offers table when the run starts: an offer of the import's
\* company and an offer of another company.
ExistingOffers ==
    {[id |-> 101, company_id |-> DEFAULT_COMPANY_ID],
     [id |-> 102, company_id |-> "stalbygg"]}

\* conn.autocommit set to True: every statement is committed as it is executed.
AutocommitOn == TRUE

\* conn.autocommit = False
Autocommit == FALSE

\* The committed table after a statement that leaves the transaction's table
\* as given.
Committed(table) == IF Autocommit THEN table ELSE db_offers

\* The DELETE executed in a dry run as well.
ClearEffectAlways(table, company_id, dry) ==
    {r \in table : r.company_id # company_id}

\* clear_offers(conn, company_id, dry_run): the table after it.
ClearEffect(table, company_id, dry) ==
    IF dry THEN table ELSE {r \in table : r.company_id # company_id}

\* The row of the offers table an inserted tuple makes.
TableRow(r) == [id |-> r.id, company_id |-> r.company_id]

\* resolve_customer_name_for_sql(excel_name, db_customers)
resolve_customer_name_for_sql(n, cache) ==
    IF normalize_customer_name(n) \in DOMAIN cache
    THEN cache[normalize_customer_name(n)][2]
    ELSE n

\* One INSERT statement of the SQL file: the id, the name in the subselect
\* for customer_id, and the offer number.
SqlInsert(o, cache) ==
    [id |-> o.id,
     customer_name |-> resolve_customer_name_for_sql(o.customer_name, cache),
     company_id |-> o.company_id, offer_number |-> o.offer_number]

InitImport ==
    /\ pc = "read"
    /\ alias_key \in ImportKeys
    /\ customers = <<>> /\ fetched = <<>>
    /\ customer_cache = <<>> /\ customer_cache_loaded = FALSE
    /\ customer_name = <<>> /\ found = None
    /\ offers = <<>> /\ sorted_offers = <<>> /\ prev_numbers = {}
    /\ now_year \in NowYears
    /\ dry_run \in BOOLEAN /\ clear \in BOOLEAN /\ output_sql \in BOOLEAN
    /\ output_sql => ~dry_run /\ ~clear
    /\ importable = <<>> /\ skipped = <<>> /\ inserted = <<>>
    /\ saved \in {<<>>, EarlierFile}
    /\ db_offers = ExistingOffers /\ tx_offers = ExistingOffers
    /\ tx_state = "none" /\ sql_inserts = <<>>
    /\ NormIdle /\ ScoreIdle /\ ReportIdle
    /\ LoopIdle /\ ReadIdle /\ CustIdle /\ AgreeIdle

\* A row the customers table holds when the import starts.
ExistingCustomer(n) ==
    /\ pc = "read" /\ Len(customers) < MaxCustomers
    /\ customers' = Append(customers, <<Len(customers) + 1, n>>)
    /\ UNCHANGED <<pc, alias_key, fetched, customer_cache, customer_cache_loaded,
                   customer_name, found, normVars, scoreVars, assignVars,
                   importVars, reportVars, moreVars>>

\* read_excel_offers appends the offer of one more row.
ReadOffer(o) ==
    /\ pc = "read" /\ Len(offers) < MaxImportOffers
    /\ offers' = Append(offers, o)
    /\ UNCHANGED <<pc, now_year, sorted_offers, prev_numbers,
                   normVars, resVars, scoreVars, importVars, reportVars, moreVars>>

\* Step 2 of main: offers = assign_offer_numbers(offers, company_prefix="TK")
AssignNumbers ==
    /\ pc = "read"
    /\ offers' = assign_offer_numbers(offers)
    /\ pc' = "numbered"
    /\ UNCHANGED <<now_year, sorted_offers, prev_numbers,
                   normVars, resVars, scoreVars, importVars, reportVars, moreVars>>

\* if args.clear: clear_offers(conn, DEFAULT_COMPANY_ID, args.dry_run), on
\* the connection main has just opened.
ClearOffers ==
    /\ pc = "numbered" /\ ~output_sql /\ clear
    /\ tx_offers' = ClearEffect(tx_offers, DEFAULT_COMPANY_ID, dry_run)
    /\ db_offers' = Committed(tx_offers')
    /\ tx_state' = "open"
    /\ pc' = "cleared"
    /\ UNCHANGED <<dry_run, importable, skipped, inserted, saved, clear, output_sql,
                   sql_inserts, normVars, resVars, scoreVars, assignVars,
                   reportVars, moreVars>>

\* skipped = insert_offers(conn, offers, args.dry_run)
InsertOffers ==
    /\ pc = (IF clear THEN "cleared" ELSE "numbered") /\ ~output_sql
    /\ IF offers = <<>>
       THEN /\ UNCHANGED <<offers, fetched, customer_cache, customer_cache_loaded,
                           importable, inserted>>
            /\ skipped' = <<>>
       ELSE /\ LoadEffect
            /\ importable' = ImportableFrom(customer_cache', offers, 1)
            /\ skipped' = SkippedFrom(customer_cache', offers, 1)
            /\ offers' = OffersAfter(customer_cache', offers)
            /\ inserted' = IF dry_run THEN <<>>
                           ELSE [i \in 1..Len(importable') |-> InsertRow(importable'[i])]
    /\ tx_offers' = tx_offers \cup {TableRow(inserted'[i]) : i \in 1..Len(inserted')}
    /\ db_offers' = Committed(tx_offers')
    /\ tx_state' = "open"
    /\ pc' = "processed"
    /\ UNCHANGED <<alias_key, customers, customer_name, found, now_year,
                   sorted_offers, prev_numbers, dry_run, saved, clear, output_sql,
                   sql_inserts, normVars, scoreVars, reportVars, moreVars>>

\* if skipped: save_skipped_offers(skipped, "skipped_offers.csv").  With no
\* skipped offer the file is not written and keeps what it held.
SaveSkippedOffers ==
    /\ pc = "processed"
    /\ saved' = IF skipped # <<>>
                THEN [i \in 1..Len(skipped) |-> SkippedRow(skipped[i])]
                ELSE saved
    /\ pc' = "done"
    /\ UNCHANGED <<dry_run, importable, skipped, inserted, txVars,
                   normVars, resVars, scoreVars, assignVars, reportVars, moreVars>>

\* The end of the try block: conn.commit(), or conn.rollback() in a dry run.
EndTransaction ==
    /\ pc = "done"
    /\ IF dry_run
       THEN /\ tx_offers' = db_offers /\ tx_state' = "rolled_back"
            /\ UNCHANGED db_offers
       ELSE /\ db_offers' = tx_offers /\ tx_state' = "committed"
            /\ UNCHANGED tx_offers
    /\ pc' = "ended"
    /\ UNCHANGED <<dry_run, importable, skipped, inserted, saved, clear, output_sql,
                   sql_inserts, normVars, resVars, scoreVars, assignVars,
                   reportVars, moreVars>>

\* The INSERT of insert_offers raises: the cache is loaded and the loop over
\* the offers has run, so the matched offers carry their customer; no row is
\* inserted, main gets no list of skipped offers and writes no file, except
\* Exception does conn.rollback() and the run exits with status 1.
InsertRaises ==
    /\ pc = (IF clear THEN "cleared" ELSE "numbered") /\ ~output_sql
    /\ ~dry_run /\ offers # <<>>
    /\ LoadEffect
    /\ importable' = ImportableFrom(customer_cache', offers, 1)
    /\ importable' # <<>>
    /\ skipped' = SkippedFrom(customer_cache', offers, 1)
    /\ offers' = OffersAfter(customer_cache', offers)
    /\ tx_offers' = db_offers /\ tx_state' = "rolled_back"
    /\ pc' = "failed"
    /\ UNCHANGED <<alias_key, customers, customer_name, found, now_year,
                   sorted_offers, prev_numbers, dry_run, inserted, saved, clear,
                   output_sql, db_offers, sql_inserts, normVars, scoreVars,
                   reportVars, moreVars>>

\* A step of the try block raises before it has changed anything (the
\* SELECT or the DELETE of clear_offers, the SELECT of load_customer_cache,
\* the writing of the review file, conn.commit()): except Exception does
\* conn.rollback() and the run exits with status 1.
StepRaises ==
    /\ pc \in {"numbered", "cleared", "processed", "done"} /\ ~output_sql
    /\ tx_offers' = db_offers /\ tx_state' = "rolled_back"
    /\ pc' = "failed"
    /\ UNCHANGED <<dry_run, importable, skipped, inserted, saved, clear, output_sql,
                   db_offers, sql_inserts, normVars, resVars, scoreVars, assignVars,
                   reportVars, moreVars>>

\* if args.output_sql: generate_sql_file(offers, args.output_sql, skip_stats).
\* The names come from SELECT name FROM customers in the order the database
\* gives them, or from no row when the database cannot be reached.
GenerateSqlFile ==
    /\ pc = "numbered" /\ output_sql
    /\ \/ \E f \in RowOrders(Len(customers)) :
             fetched' = [i \in 1..Len(customers) |-> customers[f[i]]]
       \/ fetched' = <<>>
    /\ sql_inserts' = [i \in 1..Len(offers) |->
                          SqlInsert(offers[i], LoadRows(<<>>, fetched', 1))]
    /\ pc' = "sql_written"
    /\ UNCHANGED <<alias_key, customers, customer_cache, customer_cache_loaded,
                   customer_name, found, dry_run, importable, skipped, inserted,
                   saved, clear, output_sql, db_offers, tx_offers, tx_state,
                   normVars, scoreVars, assignVars, reportVars, moreVars>>

NextImport ==
    \/ \E n \in ImportDbNames(alias_key) : ExistingCustomer(n)
    \/ \E o \in ImportOffers(alias_key, Len(offers) + 1, now_year) : ReadOffer(o)
    \/ AssignNumbers
    \/ ClearOffers
    \/ InsertOffers
    \/ SaveSkippedOffers
    \/ EndTransaction
    \/ InsertRaises
    \/ StepRaises
    \/ GenerateSqlFile

SpecImport == InitImport /\ [][NextImport]_vars

\* The ids of the offers of a list.
IdsOf(list) == {list[i].id : i \in 1..Len(list)}

Processed == pc \in {"processed", "done"}

\* C15: after insert_offers every offer of the batch is in exactly one of
\* importable and skipped; an importable offer carries the id and name of
\* the loaded customer that find_customer returns for its customer_name, a
\* skipped offer has no loaded customer of its normalized name; the rows
\* inserted are rows of importable offers (all of them, unless the run is a
\* dry run); and the review file, written when an offer was skipped, has one
\* row per skipped offer, and is left as it was when none was skipped.
C15_ImportableOrSkipped ==
    Processed =>
        /\ Len(importable) + Len(skipped) = Len(offers)
        /\ IdsOf(importable) \cup IdsOf(skipped) = IdsOf(offers)
        /\ IdsOf(importable) \cap IdsOf(skipped) = {}
        /\ \A i \in 1..Len(importable) :
              LET o == importable[i]
              IN  /\ <<o.customer_id, o.matched_customer_name>>
                        = CacheLookup(customer_cache, o.customer_name)
                  /\ \E j \in LoadedAs(normalize_customer_name(o.customer_name)) :
                        <<o.customer_id, o.matched_customer_name>> = fetched[j]
        /\ \A i \in 1..Len(skipped) :
              LoadedAs(normalize_customer_name(skipped[i].customer_name)) = {}
        /\ \A r \in 1..Len(inserted) :
              \E i \in 1..Len(importable) :
                  /\ inserted[r].id = importable[i].id
                  /\ inserted[r].customer_id = importable[i].customer_id
                  /\ inserted[r].customer_name = importable[i].matched_customer_name
        /\ ~dry_run => {inserted[r].id : r \in 1..Len(inserted)} = IdsOf(importable)
        /\ Len(inserted) <= Len(importable)
        /\ (pc = "done" /\ skipped # <<>>) =>
              /\ Len(saved) = Len(skipped)
              /\ \A i \in 1..Len(skipped) :
                    /\ saved[i].title = skipped[i].title
                    /\ saved[i].customer_name = skipped[i].customer_name
        /\ (pc = "done" /\ skipped = <<>>) => saved \in {<<>>, EarlierFile}

C15_Witness ==
    /\ pc = "done" /\ ~dry_run
    /\ Len(importable) = 1 /\ Len(skipped) = 1
    /\ importable[1].customer_name = alias_key
    /\ importable[1].matched_customer_name = CUSTOMER_ALIASES[alias_key] \o <<" ","A","S">>
    /\ skipped[1].customer_name = <<"x">>
    /\ Len(inserted) = 1 /\ inserted[1].id = importable[1].id
    /\ Len(saved) = 1 /\ saved[1].title = skipped[1].title

\* For every year an offer of the list was numbered in, the sequence numbers
\* of that year's offers are exactly 1..n.
NumberedWithoutGaps(list) ==
    LET years == YearsOf(list)
        seqs  == SeqsOf(list)
    IN  \A i \in 1..Len(list) :
            LET same == {j \in 1..Len(list) : years[j] = years[i]}
            IN  {seqs[j] : j \in same} = 1..Cardinality(same)

\* C16 as stated: the offers are resolved before they are numbered, so a
\* skipped offer has no offer_number and the numbers of each year's
\* importable offers are 1..n.
C16_ResolvedThenNumbered ==
    Processed =>
        /\ \A i \in 1..Len(skipped) : skipped[i].offer_number = <<>>
        /\ NumberedWithoutGaps(importable)

\* C16 amended: the offers are numbered before they are resolved: when
\* assign_offer_numbers has run no customer is loaded and no offer is matched,
\* and after insert_offers every offer, importable or skipped, carries a
\* number, the numbers of each year's offers being 1..n over both lists.
C16_NumberedThenResolved ==
    /\ pc = "numbered" =>
          /\ ~customer_cache_loaded /\ importable = <<>> /\ skipped = <<>>
          /\ \A i \in 1..Len(offers) : offers[i].offer_number # <<>>
          /\ NumberedWithoutGaps(offers)
    /\ Processed =>
          /\ \A i \in 1..Len(skipped) : skipped[i].offer_number # <<>>
          /\ \A i \in 1..Len(importable) : importable[i].offer_number # <<>>
          /\ NumberedWithoutGaps(importable \o skipped)

C16_Witness ==
    /\ pc = "done"
    /\ Len(skipped) = 1 /\ skipped[1].offer_number = Str_TK_2024_001
    /\ Len(importable) = 1 /\ importable[1].offer_number = Str_TK_2024_002
    /\ Len(inserted) = 1

\* ----------------------------------- main of analyze_customer_matches.py
\* The characters of the model's names in the order of their code points.
CharOrder == <<"\t", "\n", " ", "&", "(", ")", "-", ".", "/",
               "0","1","2","3","4","5","6","7","8","9", "?",
               "A","B","C","D","E","F","G","H","I","J","K","L","M","N","O",
               "P","Q","R","S","T","U","V","W","X","Y","Z",
               "a","b","c","d","e","f","g","h","i","j","k","l","m","n","o",
               "p","q","r","s","t","u","v","w","x","y","z",
               "Å", "Æ", "Ø", "å", "æ", "ø">>

\* ord(c), up to the order.
Ord(c) == CHOOSE i \in 1..Len(CharOrder) : CharOrder[i] = c

\* a < b for two str.
RECURSIVE StrBefore(_, _)
StrBefore(a, b) ==
    IF b = <<>> THEN FALSE
    ELSE IF a = <<>> THEN TRUE
    ELSE IF a[1] # b[1] THEN Ord(a[1]) < Ord(b[1])
    ELSE StrBefore(Tail(a), Tail(b))

\* score >= best_score
ScoreNotLess(a, b) == a[1] * b[2] >= b[1] * a[2]

\* score > best_score
ScoreGreater(a, b) == a[1] * b[2] > b[1] * a[2]

\* The loop of find_best_match from row i on.
RECURSIVE BestFrom(_, _, _, _, _)
BestFrom(excel, rows, i, match, best) ==
    IF i > Len(rows) THEN <<match, best>>
    ELSE LET sc == similarity_score(excel, rows[i][2])
         IN  IF ScoreGreater(sc, best)
             THEN BestFrom(excel, rows, i + 1, rows[i], sc)
             ELSE BestFrom(excel, rows, i + 1, match, best)

\* find_best_match(excel_name, db_customers): <<best_match, best_score>>
find_best_match(excel, rows) == BestFrom(excel, rows, 1, None, <<0, 1>>)

Str_NO_MATCH_FOUND ==
    <<"N","O"," ","M","A","T","C","H"," ","F","O","U","N","D">>

\* match_info of a name, given what find_best_match returned for it.
MatchInfo(excel, match, sc) ==
    IF match # None
    THEN [excel_name |-> excel, db_name |-> match[2], db_id |-> match[1],
          org_number |-> match[3], score |-> sc]
    ELSE [excel_name |-> excel, db_name |-> Str_NO_MATCH_FOUND, db_id |-> <<>>,
          org_number |-> <<>>, score |-> <<0, 1>>]

\* The band with 0.9 as its lower limit.
IsExactFromNine(match, sc) == match # None /\ ScoreAtLeast(sc, <<9, 10>>)

\* if score >= 0.95
IsExact(match, sc) == match # None /\ ScoreAtLeast(sc, <<95, 100>>)

\* elif score >= 0.6
IsProbable(match, sc) ==
    match # None /\ ~IsExact(match, sc) /\ ScoreAtLeast(sc, <<6, 10>>)

\* Customer names of the spreadsheet (stripped and not empty) and names of
\* the customers table of a run of the report.
ExcelNamePool == {<<"a"," ","b">>, <<"b"," ","a"," ","c">>, <<"a">>, <<"d">>}
DbNamePool    == {<<"a"," ","b">>, <<"A"," ","B"," ","A","S">>, <<"c">>,
                  <<"a"," ","d">>}

\* The names of a list of match_info.
NamesIn(list) == {list[i].excel_name : i \in 1..Len(list)}

\* The names the loop over sorted(excel_customers.items()) has not reached.
Pending ==
    excel_customers \ (NamesIn(exact_matches) \cup NamesIn(probable_matches)
                        \cup NamesIn(needs_attention))

InitReport ==
    /\ pc = "collect"
    /\ excel_customers = {} /\ db_customers = <<>> /\ excel_name = <<>>
    /\ best_match = None /\ best_score = <<0, 1>>
    /\ exact_matches = <<>> /\ probable_matches = <<>> /\ needs_attention = <<>>
    /\ NormIdle /\ ResIdle /\ ScoreIdle /\ AssignIdle /\ ImportIdle
    /\ LoopIdle /\ ReadIdle /\ CustIdle /\ AgreeIdle

\* get_excel_customers meets one more customer name.
AddExcelCustomer(n) ==
    /\ pc = "collect" /\ n \notin excel_customers
    /\ Cardinality(excel_customers) < MaxExcelNames
    /\ excel_customers' = excel_customers \cup {n}
    /\ UNCHANGED <<pc, db_customers, excel_name, best_match, best_score,
                   exact_matches, probable_matches, needs_attention,
                   normVars, resVars, scoreVars, assignVars, importVars, moreVars>>

\* get_db_customers returns one more row.  The rows come ordered by name in
\* the collation of the database, which the script does not fix; the model
\* takes them in any order.
AddDbCustomer(n) ==
    /\ pc = "collect" /\ Len(db_customers) < MaxDbCustomers
    /\ db_customers' = Append(db_customers, <<Len(db_customers) + 1, n, <<>>>>)
    /\ UNCHANGED <<pc, excel_customers, excel_name, best_match, best_score,
                   exact_matches, probable_matches, needs_attention,
                   normVars, resVars, scoreVars, assignVars, importVars, moreVars>>

\* One pass of the loop of main: the next name in sorted order is matched
\* and its match_info appended to one of the three lists.
AnalyzeNext ==
    /\ pc \in {"collect", "analyze"} /\ Pending # {}
    /\ LET n      == CHOOSE x \in Pending : \A y \in Pending \ {x} : StrBefore(x, y)
           result == find_best_match(n, db_customers)
           info   == MatchInfo(n, result[1], result[2])
       IN  /\ excel_name' = n
           /\ best_match' = result[1]
           /\ best_score' = result[2]
           /\ exact_matches' =
                 IF IsExact(result[1], result[2])
                 THEN Append(exact_matches, info) ELSE exact_matches
           /\ probable_matches' =
                 IF IsProbable(result[1], result[2])
                 THEN Append(probable_matches, info) ELSE probable_matches
           /\ needs_attention' =
                 IF ~IsExact(result[1], result[2]) /\ ~IsProbable(result[1], result[2])
                 THEN Append(needs_attention, info) ELSE needs_attention
    /\ pc' = "analyze"
    /\ UNCHANGED <<excel_customers, db_customers,
                   normVars, resVars, scoreVars, assignVars, importVars, moreVars>>

NextReport ==
    \/ \E n \in ExcelNamePool : AddExcelCustomer(n)
    \/ \E n \in DbNamePool : AddDbCustomer(n)
    \/ AnalyzeNext

SpecReport == InitReport /\ [][NextReport]_vars

\* C19: find_best_match returns the first row, in the order of the list, of
\* those with the highest similarity score, and that score; with no row, or
\* with every score 0, it returns None and the score 0.
C19_BestMatchFirstHighest ==
    pc = "analyze" =>
        LET scores == [i \in 1..Len(db_customers) |->
                          similarity_score(excel_name, db_customers[i][2])]
        IN  IF \A i \in 1..Len(db_customers) : scores[i] = <<0, 1>>
            THEN best_match = None /\ best_score = <<0, 1>>
            ELSE \E i \in 1..Len(db_customers) :
                    /\ best_match = db_customers[i]
                    /\ best_score = scores[i]
                    /\ \A j \in 1..Len(db_customers) :
                          scores[j][1] * scores[i][2] <= scores[i][1] * scores[j][2]
                    /\ \A j \in 1..(i - 1) : scores[j] # scores[i]

C19_Witness ==
    /\ pc = "analyze"
    /\ excel_name = <<"a"," ","b">>
    /\ Len(db_customers) = 2
    /\ db_customers[1][2] = <<"A"," ","B"," ","A","S">>
    /\ db_customers[2][2] = <<"a"," ","b">>
    /\ best_match = db_customers[1]
    /\ best_score = <<1, 1>>

\* How many match_info of a list are about the name n.
CountIn(list, n) == Cardinality({i \in 1..Len(list) : list[i].excel_name = n})

\* C20: every name the report has analyzed is in exactly one of the three
\* lists, decided by the score find_best_match gives it: 0.95 or more in
\* exact_matches, from 0.6 up to 0.95 in probable_matches, below 0.6 or with
\* no match in needs_attention; a best score of 0.9 is in probable_matches.
C20_OneBandByScore ==
    pc = "analyze" =>
        \A n \in excel_customers \ Pending :
            LET r  == find_best_match(n, db_customers)
                sc == r[2]
            IN  /\ CountIn(exact_matches, n) + CountIn(probable_matches, n)
                      + CountIn(needs_attention, n) = 1
                /\ sc[1] * 100 >= 95 * sc[2] => CountIn(exact_matches, n) = 1
                /\ (sc[1] * 10 >= 6 * sc[2] /\ sc[1] * 100 < 95 * sc[2])
                      => CountIn(probable_matches, n) = 1
                /\ (r[1] = None \/ sc[1] * 10 < 6 * sc[2])
                      => CountIn(needs_attention, n) = 1
                /\ sc = <<9, 10>> => CountIn(probable_matches, n) = 1

C20_Witness ==
    /\ pc = "analyze" /\ Pending = {}
    /\ Len(exact_matches) = 1 /\ exact_matches[1].score = <<1, 1>>
    /\ Len(probable_matches) = 1 /\ probable_matches[1].score = <<9, 10>>
    /\ Len(needs_attention) = 0

\* ---------------------------------------------------------------------------
\* C21: the year in an offer's number is the year of its sent_date when it
\* has one, else the year of its created_at when it has one, else the current
\* year; a sent_date decides the year whatever created_at says.
C21_YearSelection ==
    Assigned =>
        \A r \in 1..Len(sorted_offers) :
            LET o == sorted_offers[r]
            IN  /\ o.sent_date # None => NumberYear(o) = o.sent_date[1]
                /\ (o.sent_date = None /\ o.created_at # None)
                       => NumberYear(o) = o.created_at[1]
                /\ (o.sent_date = None /\ o.created_at = None)
                       => NumberYear(o) = now_year

\* A batch with all three cases: an offer sent in 2024 and created in 2023
\* numbered in 2024, an unsent offer created in 2023 numbered in 2023, and an
\* unsent offer with no created_at numbered in the current year.
C21_Witness ==
    /\ pc = "assigned" /\ Len(sorted_offers) = 3 /\ now_year = 2025
    /\ \E r \in 1..3 :
          /\ sorted_offers[r].sent_date = Date(2024, 1, 15)
          /\ sorted_offers[r].created_at = Date(2023, 12, 1)
          /\ NumberYear(sorted_offers[r]) = 2024
    /\ \E r \in 1..3 :
          /\ sorted_offers[r].sent_date = None
          /\ sorted_offers[r].created_at = Date(2023, 12, 1)
          /\ NumberYear(sorted_offers[r]) = 2023
    /\ \E r \in 1..3 :
          /\ sorted_offers[r].sent_date = None
          /\ sorted_offers[r].created_at = None
          /\ NumberYear(sorted_offers[r]) = 2025

\* ------------------------------ assign_offer_numbers on a batch of over 999
\* The loop of assign_offer_numbers, one pass per step, over a sorted batch
\* of offers of the year 2023: offers sent on 2023-11-20 and, after them,
\* offers never sent that were created on 2023-12-01.
VolumeOffers ==
    {[sent_date |-> Date(2023, 11, 20), external_reference |-> <<>>,
      created_at |-> Date(2023, 11, 20), offer_number |-> <<>>],
     [sent_date |-> None, external_reference |-> <<>>,
      created_at |-> Date(2023, 12, 1), offer_number |-> <<>>]}

InitVolume ==
    /\ pc = "loop"
    /\ year_seqs = <<>> /\ numbered_count = 0 /\ loop_offer = <<>>
    /\ loop_numbers = {}
    /\ NormIdle /\ ResIdle /\ ScoreIdle /\ AssignIdle /\ ImportIdle /\ ReportIdle
    /\ ReadIdle /\ CustIdle /\ AgreeIdle

\* One pass of "for offer in sorted_offers": o is the next offer of the
\* sorted list, so its key is not below the key of the offer before it.
NumberNextOffer(o) ==
    /\ pc = "loop" /\ numbered_count < MaxVolume
    /\ IF loop_offer = <<>> THEN TRUE
       ELSE ~KeyLess(SortKey(o), SortKey(loop_offer))
    /\ LET year == OfferYear(o)
           seq  == NextSeq(year_seqs, year)
           number == FormatOfferNumber(CompanyPrefix, year, seq)
       IN  /\ year_seqs' = [y \in DOMAIN year_seqs \cup {year} |->
                               IF y = year THEN seq ELSE year_seqs[y]]
           /\ loop_offer' = [o EXCEPT !.offer_number = number]
           /\ loop_numbers' = loop_numbers \cup {number}
    /\ numbered_count' = numbered_count + 1
    /\ UNCHANGED <<pc, normVars, resVars, scoreVars, assignVars, importVars,
                   reportVars, readVars, custVars, agreeVars>>

NextVolume == \E o \in VolumeOffers : NumberNextOffer(o)

SpecVolume == InitVolume /\ [][NextVolume]_vars

Str_TK_2023_999  == <<"T","K","-","2","0","2","3","-","9","9","9">>
Str_TK_2023_1000 == <<"T","K","-","2","0","2","3","-","1","0","0","0">>
Str_TK_2023_1001 == <<"T","K","-","2","0","2","3","-","1","0","0","1">>

\* C22: in a batch with more than 999 offers of one year the numbering goes
\* on past 999: the n-th offer of the year carries the sequence number n (the
\* number read back from its offer_number), written with at least three
\* digits and with four or more from the 1000th on, and the offer numbers
\* written so far are pairwise different.
C22_PastThreeDigits ==
    numbered_count >= 1 =>
        LET parts == SplitDash(loop_offer.offer_number, 1, <<>>)
        IN  /\ Len(parts) = 3
            /\ NumberYear(loop_offer) = 2023
            /\ NumberSeq(loop_offer) = numbered_count
            /\ Len(parts[3]) >= 3
            /\ numbered_count > 999 => Len(parts[3]) >= 4
            /\ parts[3][1] = "0" => numbered_count < 100
            /\ Cardinality(loop_numbers) = numbered_count

\* The 1001st offer of 2023 is TK-2023-1001, after TK-2023-999 and
\* TK-2023-1000.
C22_Witness ==
    /\ numbered_count = 1001
    /\ loop_offer.offer_number = Str_TK_2023_1001
    /\ {Str_TK_2023_999, Str_TK_2023_1000} \subseteq loop_numbers

\* ---------------------------------------------------------------------------
\* C23: when exactly one of the two names normalizes to the empty string and
\* the other has at least one word, similarity_score is 0.0.
C23_EmptyScoresZero ==
    pc \in {"scored", "scored_both"} =>
        LET n1 == normalize_name(name1)
            n2 == normalize_name(name2)
        IN  (\/ n1 = <<>> /\ Split(n2) # <<>>
             \/ n2 = <<>> /\ Split(n1) # <<>>) => score = <<0, 1>>

\* ---------------------------------------------------------------------------
\* The two names are made of the same words.
SameWords(n1, n2) ==
    /\ \A i \in 1..Len(Split(n1)) : \E j \in 1..Len(Split(n2)) : Split(n1)[i] = Split(n2)[j]
    /\ \A j \in 1..Len(Split(n2)) : \E i \in 1..Len(Split(n1)) : Split(n2)[j] = Split(n1)[i]

\* C29 as stated: a score of 1.0 is given only to two names of the same
\* normalized form.
C29_FullScoreOnlyIdentical ==
    pc \in {"scored", "scored_both"} =>
        (score = <<1, 1>> => normalize_name(name1) = normalize_name(name2))

\* C29 amended: the score is 1.0 exactly when the normalized forms are
\* identical or when, neither form containing the other, the two forms are
\* made of the same words.
C29_FullScoreSameWords ==
    pc \in {"scored", "scored_both"} =>
        LET n1 == normalize_name(name1)
            n2 == normalize_name(name2)
        IN  score = <<1, 1>> <=>
                \/ n1 = n2
                \/ /\ ~IsSubstring(n1, n2) /\ ~IsSubstring(n2, n1)
                   /\ SameWords(n1, n2)

\* "ab b" and "b ab": different forms, the same words, score 1.0.
C29_Witness ==
    /\ pc = "scored"
    /\ name1 = <<"a","b"," ","b">> /\ name2 = <<"b"," ","a","b">>
    /\ normalize_name(name1) # normalize_name(name2)
    /\ score = <<1, 1>>

\* ------------------------------------ the report's and the import's normalizer
\* Pairs of names given to both normalizers: the keys of the alias table,
\* the keys without their suffix, with the suffix " AS" added and with " sa"
\* in the place of their suffix, the names the table maps to, and names the
\* table does not hold.
AgreeNames ==
    AliasKeys
    \cup {StripSuffix(k) : k \in AliasKeys}
    \cup {k \o <<" ","A","S">> : k \in AliasKeys}
    \cup {StripSuffix(k) \o <<" ","s","a">> : k \in AliasKeys}
    \cup AliasValues
    \cup {Str_Veidekke_AS, <<"x">>, <<"x"," ","a","s">>, <<"X"," "," ","A","S">>,
          <<"x"," ","s","a">>, <<"Α","Σ"," ","A","S">>, <<>>, None}

InitAgree ==
    /\ pc = "names"
    /\ name1 \in AgreeNames /\ name2 \in AgreeNames
    /\ score = <<0, 1>> /\ score_rev = <<0, 1>>
    /\ report_keys = <<>> /\ import_keys = <<>>
    /\ NormIdle /\ ResIdle /\ AssignIdle /\ ImportIdle /\ ReportIdle
    /\ LoopIdle /\ ReadIdle /\ CustIdle

\* Both scripts normalize the two names.
NormalizeBoth ==
    /\ pc = "names"
    /\ report_keys' = <<normalize_name(name1), normalize_name(name2)>>
    /\ import_keys' = <<normalize_customer_name(name1), normalize_customer_name(name2)>>
    /\ pc' = "normalized_both"
    /\ UNCHANGED <<normVars, resVars, scoreVars, assignVars, importVars, reportVars,
                   loopVars, readVars, custVars>>

NextAgree == NormalizeBoth

SpecAgree == InitAgree /\ [][NextAgree]_vars

\* The name after lower(), strip() and the whitespace substitution.
Cleaned(s) == IF s = None \/ s = <<>> THEN <<>> ELSE CleanName(s)

Str_seby_veidekke_as == <<"s","e","b","y"," ","a","s","/"," ","v","e","i","d","e","k","k","e"," ","a","s">>
Str_seby_veidekke    == <<"s","e","b","y"," ","a","s","/"," ","v","e","i","d","e","k","k","e">>
Str_hallmaker_straye_stalbygg_as == <<"h","a","l","l","m","a","k","e","r"," ","a","s","/"," ","s","t","r","a","y","e"," ","s","t","å","l","b","y","g","g"," ","a","s">>

\* The keys of CUSTOMER_ALIASES that join two company names: the name without
\* its suffix is no key of the table.
CombinedKeys == {Str_seby_veidekke_as, Str_hallmaker_straye_stalbygg_as}

\* C30 as stated: two names the report's normalizer maps to one form are
\* mapped to one cache key by the import's normalizer.
C30_ReportEqualImportEqual ==
    pc = "normalized_both" =>
        (report_keys[1] = report_keys[2] => import_keys[1] = import_keys[2])

\* C30 amended: the same, for two names neither of which is, once lowercased,
\* trimmed and whitespace-collapsed, one of the two keys of the alias table
\* that join two company names; the other keys of the table are among the
\* names the two normalizers agree on.
C30_AgreeOffCombinedKeys ==
    pc = "normalized_both" =>
        ((/\ Cleaned(name1) \notin CombinedKeys /\ Cleaned(name2) \notin CombinedKeys
          /\ report_keys[1] = report_keys[2])
            => import_keys[1] = import_keys[2])

\* "Veidekke AS", an alias key once cleaned, and "veidekke" are "veidekke"
\* for the report and "veidekke entreprenør" for the import.
C30_Witness ==
    /\ pc = "normalized_both"
    /\ name1 = Str_Veidekke_AS /\ name2 = <<"v","e","i","d","e","k","k","e">>
    /\ Cleaned(name1) \in AliasKeys \ CombinedKeys
    /\ report_keys = <<<<"v","e","i","d","e","k","k","e">>, <<"v","e","i","d","e","k","k","e">>>>
    /\ import_keys = <<<<"v","e","i","d","e","k","k","e"," ","e","n","t","r","e","p","r","e","n","ø","r">>, <<"v","e","i","d","e","k","k","e"," ","e","n","t","r","e","p","r","e","n","ø","r">>>>

\* ------------------------------------------------------- read_excel_offers
\* A text cell is a str, an empty cell is NaN, written None.
\* clean_string(value)
clean_string(value) == IF value = None THEN <<>> ELSE Strip(value)

Str_Tilbud   == <<"T","i","l","b","u","d">>
Str_Ferdig   == <<"F","e","r","d","i","g">>
Str_Ordre    == <<"O","r","d","r","e">>
Str_Tapt     == <<"T","a","p","t">>
Str_BUDSJETT == <<"B","U","D","S","J","E","T","T">>
Str_UTGAAR   == <<"U","T","G","Å","R">>
Str_UTLOPT   == <<"U","T","L","Ø","P","T">>

STATUS_MAPPING ==
    (Str_Tilbud   :> <<"_needs_sent_date", "active">>) @@
    (Str_Ferdig   :> <<"completed", "active">>) @@
    (Str_Ordre    :> <<"order", "active">>) @@
    (Str_Tapt     :> <<"lost", "lost">>) @@
    (Str_BUDSJETT :> <<"_needs_sent_date", "active">>) @@
    (Str_UTGAAR   :> <<"_skip", "expired">>) @@
    (Str_UTLOPT   :> <<"_skip", "expired">>)

\* STATUS_MAPPING.get(excel_status, ("_needs_sent_date", "active"))
BaseMapping(excel_status) ==
    IF excel_status \in DOMAIN STATUS_MAPPING THEN STATUS_MAPPING[excel_status]
    ELSE <<"_needs_sent_date", "active">>

\* The base mapping returned as it is.
get_status_mapping_base(excel_status, sent_date) ==
    BaseMapping(clean_string(excel_status))

get_status_mapping(excel_status, sent_date) ==
    LET base == BaseMapping(clean_string(excel_status))
    IN  IF base[1] = "_needs_sent_date"
        THEN <<IF sent_date # None THEN "sent" ELSE "in_progress", base[2]>>
        ELSE base

\* A cell of the column Sendt: a datetime, NaN, or a text.
DateCell(d) == [type |-> "datetime", date |-> d, text |-> <<>>]
TextCell(t) == [type |-> "str", date |-> <<>>, text |-> t]
NaNCell     == [type |-> "NaN", date |-> <<>>, text |-> <<>>]

\* The parts of s between the occurrences of the character sep.
RECURSIVE SplitAt(_, _, _, _)
SplitAt(s, sep, i, part) ==
    IF i > Len(s) THEN <<part>>
    ELSE IF s[i] = sep THEN <<part>> \o SplitAt(s, sep, i + 1, <<>>)
    ELSE SplitAt(s, sep, i + 1, Append(part, s[i]))

AllDecimal(s) == \A i \in 1..Len(s) : IsDecimal(s[i])

\* The directive %Y of strptime, \d\d\d\d: the year, or -1 when t is not
\* four decimal digits.  The classes of the directives are those of a str
\* pattern: \d is a decimal digit of any script, and int() reads its value.
YearField(t) == IF Len(t) = 4 /\ AllDecimal(t) THEN ToInt(t) ELSE -1

\* c is one of the ASCII digits lo..hi, a class [lo-hi] of a directive.
AsciiIn(c, lo, hi) == \E v \in lo..hi : c = DigitChars[v + 1]

\* The directive %m, 1[0-2]|0[1-9]|[1-9]: ASCII digits only.
MonthField(t) ==
    IF \/ Len(t) = 2 /\ t[1] = "1" /\ AsciiIn(t[2], 0, 2)
       \/ Len(t) = 2 /\ t[1] = "0" /\ AsciiIn(t[2], 1, 9)
       \/ Len(t) = 1 /\ AsciiIn(t[1], 1, 9)
    THEN ToInt(t) ELSE -1

\* The directive %d, 3[0-1]|[1-2]\d|0[1-9]|[1-9]| [1-9]: the second digit
\* after "1" or "2" is a decimal digit of any script, the others are ASCII.
DayField(t) ==
    IF \/ Len(t) = 2 /\ t[1] = "3" /\ AsciiIn(t[2], 0, 1)
       \/ Len(t) = 2 /\ AsciiIn(t[1], 1, 2) /\ IsDecimal(t[2])
       \/ Len(t) = 2 /\ t[1] = "0" /\ AsciiIn(t[2], 1, 9)
       \/ Len(t) = 1 /\ AsciiIn(t[1], 1, 9)
    THEN ToInt(t)
    ELSE IF Len(t) = 2 /\ t[1] = " " /\ AsciiIn(t[2], 1, 9) THEN DigitValue(t[2])
    ELSE -1

\* The directive %H, 2[0-3]|[0-1]\d|\d.
HourField(t) ==
    IF \/ Len(t) = 2 /\ t[1] = "2" /\ AsciiIn(t[2], 0, 3)
       \/ Len(t) = 2 /\ AsciiIn(t[1], 0, 1) /\ IsDecimal(t[2])
       \/ Len(t) = 1 /\ IsDecimal(t[1])
    THEN ToInt(t) ELSE -1

\* The directive %M, [0-5]\d|\d.
MinuteField(t) ==
    IF \/ Len(t) = 2 /\ AsciiIn(t[1], 0, 5) /\ IsDecimal(t[2])
       \/ Len(t) = 1 /\ IsDecimal(t[1])
    THEN ToInt(t) ELSE -1

\* The directive %S, 6[0-1]|[0-5]\d|\d.
SecondField(t) ==
    IF \/ Len(t) = 2 /\ t[1] = "6" /\ AsciiIn(t[2], 0, 1)
       \/ Len(t) = 2 /\ AsciiIn(t[1], 0, 5) /\ IsDecimal(t[2])
       \/ Len(t) = 1 /\ IsDecimal(t[1])
    THEN ToInt(t) ELSE -1

\* calendar: the days of a month.
DaysInMonth(year, month) ==
    IF month = 2
    THEN (IF year % 4 = 0 /\ (year % 100 # 0 \/ year % 400 = 0) THEN 29 ELSE 28)
    ELSE IF month \in {4, 6, 9, 11} THEN 30 ELSE 31

\* datetime(year, month, day, hour, minute, second) of the fields strptime
\* has read, None where a field did not match or datetime() raises ValueError.
DateOfFields(year, month, day, hour, minute, second) ==
    IF /\ year \in 1..9999 /\ month \in 1..12 /\ hour >= 0 /\ minute >= 0
       /\ second \in 0..59
       /\ day \in 1..DaysInMonth(year, month)
    THEN DateTime(year, month, day, hour, minute, second, 0)
    ELSE None

\* datetime.strptime(value, "%Y-%m-%d"), None for ValueError.
ParseYmd(value) ==
    LET p == SplitAt(value, "-", 1, <<>>)
    IN  IF Len(p) # 3 THEN None
        ELSE DateOfFields(YearField(p[1]), MonthField(p[2]), DayField(p[3]),
                          0, 0, 0)

\* datetime.strptime(value, "%d.%m.%Y"), None for ValueError.
ParseDmy(value) ==
    LET p == SplitAt(value, ".", 1, <<>>)
    IN  IF Len(p) # 3 THEN None
        ELSE DateOfFields(YearField(p[3]), MonthField(p[2]), DayField(p[1]),
                          0, 0, 0)

\* datetime.strptime(value, "%Y-%m-%d %H:%M:%S"), None for ValueError.  The
\* space of the format stands for \s+, one or more whitespace characters.
ParseYmdHms(value) ==
    LET p == SplitAt(value, "-", 1, <<>>)
    IN  IF Len(p) # 3 THEN None
        ELSE
        LET rest   == p[3]
            \* the day: a space and a digit, or the decimal digits in front
            digits == Cardinality({i \in 1..Len(rest) : \A j \in 1..i : IsDecimal(rest[j])})
            dlen   == IF rest # <<>> /\ rest[1] = " " THEN 2 ELSE digits
            \* the whitespace after the day
            spaces == Cardinality({i \in (dlen + 1)..Len(rest) :
                                      \A j \in (dlen + 1)..i : IsSpace(rest[j])})
            t      == SplitAt(SubSeq(rest, dlen + spaces + 1, Len(rest)), ":", 1, <<>>)
        IN  IF dlen > Len(rest) \/ spaces = 0 \/ Len(t) # 3 THEN None
            ELSE DateOfFields(YearField(p[1]), MonthField(p[2]),
                              DayField(SubSeq(rest, 1, dlen)),
                              HourField(t[1]), MinuteField(t[2]), SecondField(t[3]))

\* clean_date(value): a datetime keeps its date and its time of day and gets
\* the time zone UTC; a text is read in the first of the three formats that
\* takes it; everything else is None.
clean_date(value) ==
    IF value.type = "datetime" THEN value.date
    ELSE IF value.type # "str" THEN None
    ELSE IF ParseYmd(value.text) # None THEN ParseYmd(value.text)
    ELSE IF ParseDmy(value.text) # None THEN ParseDmy(value.text)
    ELSE ParseYmdHms(value.text)

\* s.isdigit(): s is not empty and every character of it is a digit.
IsDigits(s) == s # <<>> /\ \A i \in 1..Len(s) : IsDigit(s[i])

\* project_title.split(" ", 1)
SplitOnce(s) ==
    LET at == {i \in 1..Len(s) : s[i] = " "}
    IN  IF at = {} THEN <<s>>
        ELSE LET i == CHOOSE i \in at : \A j \in at : i <= j
             IN  <<SubSeq(s, 1, i - 1), SubSeq(s, i + 1, Len(s))>>

\* The probability set by phase.
Probability(phase) ==
    IF phase = "in_progress" THEN 20
    ELSE IF phase = "sent" THEN 50
    ELSE IF phase \in {"order", "completed"} THEN 100
    ELSE 0

Str_Ukjent_kunde == <<"U","k","j","e","n","t"," ","k","u","n","d","e">>

\* One pass of the loop over the rows: the offers row i adds to the list,
\* none or one.  The uuid of an offer is written as the position of its row.
OffersOfRow(row, i) ==
    LET project_title == clean_string(row.Prosjekt)
        parts         == SplitOnce(project_title)
        has_ref       == Len(parts) = 2 /\ IsDigits(parts[1])
        customer      == clean_string(row.Kunde)
        sent_date     == clean_date(row.Sendt)
        excel_status  == clean_string(row.Status)
        mapping       == get_status_mapping(excel_status, sent_date)
        phase         == mapping[1]
    IN  IF project_title = <<>> THEN <<>>
        ELSE IF phase = "_skip" THEN <<>>
        ELSE <<[id |-> i,
                title |-> IF has_ref THEN parts[2] ELSE project_title,
                external_reference |-> IF has_ref THEN parts[1] ELSE <<>>,
                customer_name |-> IF customer = <<>> THEN Str_Ukjent_kunde ELSE customer,
                phase |-> phase, status |-> mapping[2],
                probability |-> Probability(phase),
                sent_date |-> sent_date,
                created_at |-> IF sent_date # None THEN sent_date
                               ELSE Date(now_year, 1, 1)]>>

RECURSIVE ReadFrom(_, _)
ReadFrom(rows, i) ==
    IF i > Len(rows) THEN <<>>
    ELSE OffersOfRow(rows[i], i) \o ReadFrom(rows, i + 1)

\* read_excel_offers(filepath)[0] for a sheet of these rows.
read_excel_offers(rows) == ReadFrom(rows, 1)

\* The cells of the model's sheets: every status of STATUS_MAPPING, a status
\* it does not hold, one written in lower case, one with spaces around it and
\* an empty cell; a title with and without text; a sent date, none, and a
\* text that is no date.  Two more rows carry a text that is a date with a
\* time of day, and one a title and a date with Persian digits.
StatusCells ==
    DOMAIN STATUS_MAPPING
    \cup {<<"A","n","n","e","t">>, <<"u","t","g","å","r">>,
          <<" ">> \o Str_UTGAAR \o <<" ">>, None}
TitleCells == {None, <<"2","2"," ","V","e","i">>}
Str_2024_01_15_09_30_00 ==
    <<"2","0","2","4","-","0","1","-","1","5"," ","0","9",":","3","0",":","0","0">>
\* 2024-01-15 with the last digit written as U+06F5, and a title whose
\* reference is the digit U+06F3.
Str_2024_01_15_Persian == <<"2","0","2","4","-","0","1","-","1","۵">>
SendtCells == {DateCell(Date(2024, 1, 15)), NaNCell, TextCell(<<"x">>)}

ExcelRows ==
    {[Prosjekt |-> t, Status |-> s, Sendt |-> d, Kunde |-> <<"A">>] :
        t \in TitleCells, s \in StatusCells, d \in SendtCells}
    \cup
    {[Prosjekt |-> <<"2","2"," ","V","e","i">>, Status |-> s,
      Sendt |-> TextCell(Str_2024_01_15_09_30_00), Kunde |-> <<"A">>] :
        s \in {Str_Tilbud, Str_Ferdig}}
    \cup
    {[Prosjekt |-> <<"۳"," ","V","e","i">>, Status |-> Str_Tilbud,
      Sendt |-> TextCell(Str_2024_01_15_Persian), Kunde |-> <<"A">>]}

InitRead ==
    /\ pc = "sheet"
    /\ excel_rows = <<>> /\ read_offers = <<>>
    /\ now_year \in NowYears
    /\ offers = <<>> /\ sorted_offers = <<>> /\ prev_numbers = {}
    /\ NormIdle /\ ResIdle /\ ScoreIdle /\ ImportIdle /\ ReportIdle
    /\ LoopIdle /\ CustIdle /\ AgreeIdle

\* One more row of the sheet.
AppendRow(row) ==
    /\ pc = "sheet" /\ Len(excel_rows) < MaxRows
    /\ excel_rows' = Append(excel_rows, row)
    /\ UNCHANGED <<pc, read_offers, normVars, resVars, scoreVars, assignVars,
                   importVars, reportVars, loopVars, custVars, agreeVars>>

\* offers, skip_stats = read_excel_offers(args.excel_file)
ReadExcelOffers ==
    /\ pc = "sheet"
    /\ read_offers' = read_excel_offers(excel_rows)
    /\ pc' = "read_done"
    /\ UNCHANGED <<excel_rows, normVars, resVars, scoreVars, assignVars,
                   importVars, reportVars, loopVars, custVars, agreeVars>>

NextRead ==
    \/ \E row \in ExcelRows : AppendRow(row)
    \/ ReadExcelOffers

SpecRead == InitRead /\ [][NextRead]_vars

Phases == {"in_progress", "sent", "order", "completed", "lost"}

\* The status of a row once stripped, as the mapping is asked for it.
RowStatus(row) == IF row.Status = None THEN <<>> ELSE Strip(row.Status)

\* C26: every offer read_excel_offers returns has one of the five phases
\* in_progress, sent, order, completed, lost ("_skip" and "_needs_sent_date"
\* never reach the output); a row whose status is UTGÅR or UTLØPT gives no
\* offer; and an offer of a row whose status is Tilbud, BUDSJETT or unknown
\* to the mapping has the phase sent exactly when it has a sent_date and
\* in_progress exactly when it has none.
C26_PhaseOfEveryOffer ==
    pc = "read_done" =>
        /\ \A k \in 1..Len(read_offers) : read_offers[k].phase \in Phases
        /\ \A i \in 1..Len(excel_rows) :
              RowStatus(excel_rows[i]) \in {Str_UTGAAR, Str_UTLOPT}
                 => \A k \in 1..Len(read_offers) : read_offers[k].id # i
        /\ \A k \in 1..Len(read_offers) :
              LET o      == read_offers[k]
                  status == RowStatus(excel_rows[o.id])
              IN  (status \in {Str_Tilbud, Str_BUDSJETT}
                      \/ status \notin {Str_Ferdig, Str_Ordre, Str_Tapt,
                                        Str_UTGAAR, Str_UTLOPT})
                     => /\ o.phase = "sent" <=> o.sent_date # None
                        /\ o.phase = "in_progress" <=> o.sent_date = None

\* A sheet whose first row is UTGÅR with a sent date and whose second row has
\* an unknown status and a text in the column Sendt: one offer, of the second
\* row, in progress.
C26_Witness ==
    /\ pc = "read_done" /\ Len(excel_rows) = 2
    /\ excel_rows[1].Status = Str_UTGAAR /\ excel_rows[1].Prosjekt # None
    /\ excel_rows[1].Sendt = DateCell(Date(2024, 1, 15))
    /\ excel_rows[2].Status = <<"A","n","n","e","t">>
    /\ excel_rows[2].Sendt = TextCell(<<"x">>)
    /\ Len(read_offers) = 1 /\ read_offers[1].id = 2
    /\ read_offers[1].phase = "in_progress" /\ read_offers[1].sent_date = None

\* ---------------------------------------------------- read_excel_customers
\* A cell of the column Org.nr. is a text, or a number written as the text
\* float() reads it from.  float(value) takes, between whitespace, a sign and
\* then "inf", "infinity", "nan" in any case or a decimal number: digits with
\* single underscores between them, a "." with digits before or after it,
\* and an exponent.

\* The digits of a run of decimal digits with single underscores between
\* them, None when t is not such a run.
DigitPart(t) ==
    IF /\ t # <<>> /\ IsDecimal(t[1]) /\ IsDecimal(t[Len(t)])
       /\ \A k \in 1..Len(t) : IsDecimal(t[k]) \/ (t[k] = "_" /\ t[k - 1] # "_")
    THEN SelectSeq(t, LAMBDA c : IsDecimal(c))
    ELSE None

\* The digits of d from its first digit that is not "0" on.
StripZeros(d) ==
    LET nz == {k \in 1..Len(d) : d[k] # "0"}
    IN  IF nz = {} THEN <<>>
        ELSE SubSeq(d, CHOOSE k \in nz : \A l \in nz : k <= l, Len(d))

\* The value of an exponent; one of ten digits or more is as good as 10^9.
ExponentValue(d) ==
    IF Len(StripZeros(d)) > 9 THEN 1000000000 ELSE ToInt(StripZeros(d))

ValueError    == [kind |-> "ValueError", negative |-> FALSE, digits |-> <<>>]
FloatNaN      == [kind |-> "nan", negative |-> FALSE, digits |-> <<>>]
FloatInf(neg) == [kind |-> "inf", negative |-> neg, digits |-> <<>>]

\* The element of a set of one element.  A name bound to the element of {e}
\* holds the value of e, computed once.
TheOne(S) == CHOOSE x \in S : TRUE

\* The parts of s between the occurrences of the character sep, each from
\* after one occurrence to before the next.
PartsAt(s, sep) ==
    TheOne({[k \in 1..(Cardinality(at) + 1) |->
                SubSeq(s,
                       IF k = 1 THEN 1
                       ELSE 1 + CHOOSE i \in at : Cardinality({j \in at : j < i}) = k - 2,
                       IF k > Cardinality(at) THEN Len(s)
                       ELSE (CHOOSE i \in at : Cardinality({j \in at : j < i}) = k - 1) - 1)] :
               at \in {{i \in 1..Len(s) : s[i] = sep}}})

\* A float is an IEEE 754 double: 53 significant bits, the nearest to the
\* decimal number read, a tie going to the even one, and inf from
\* 2^1024 - 2^970 on.  A natural number is kept here as the tuple of its
\* decimal digits, the first one first, with or without zeros in front.
NumOf(chars) == [i \in 1..Len(chars) |-> DigitValue(chars[i])]
CharsOf(n)   == [i \in 1..Len(n) |-> DigitChars[n[i] + 1]]

\* n without the zeros in front of it; zero is <<>>.
Trim(n) ==
    LET nz == {k \in 1..Len(n) : n[k] # 0}
    IN  IF nz = {} THEN <<>>
        ELSE SubSeq(n, CHOOSE k \in nz : \A l \in nz : k <= l, Len(n))

\* a < b, for a and b without zeros in front.
NumLess(a, b) ==
    \/ Len(a) < Len(b)
    \/ /\ Len(a) = Len(b)
       /\ \E i \in 1..Len(a) : a[i] < b[i] /\ \A j \in 1..(i - 1) : a[j] = b[j]

IsOdd(n) == n # <<>> /\ n[Len(n)] % 2 = 1

\* n \div 2: a digit takes ten from an odd digit in front of it.
Halve(n) ==
    [i \in 1..Len(n) |-> (n[i] + (IF i > 1 /\ n[i - 1] % 2 = 1 THEN 10 ELSE 0)) \div 2]

\* 2 * n: a digit takes one from a digit of five or more after it.
Double(n) ==
    [i \in 1..(Len(n) + 1) |->
        ((IF i = 1 THEN 0 ELSE 2 * n[i - 1]) % 10)
        + (IF i <= Len(n) /\ n[i] >= 5 THEN 1 ELSE 0)]

\* n + 1: the digits in front of a run of nines to the end go up by one.
Succ(n) ==
    LET p == <<0>> \o n
    IN  [i \in 1..Len(p) |->
            IF \A j \in (i + 1)..Len(p) : p[j] = 9 THEN (p[i] + 1) % 10 ELSE p[i]]

\* 10^k - n for a number n of k digits.
TenComplement(n) == Succ([i \in 1..Len(n) |-> 9 - n[i]])

Two53 == <<9,0,0,7,1,9,9,2,5,4,7,4,0,9,9,2>>

\* n \div 2^k and n * 2^k, each as two shifts of half the size.
RECURSIVE HalvedBy(_)
HalvedBy(st) ==
    IF st.k = 0 THEN Trim(st.n)
    ELSE IF st.k = 1 THEN Trim(Halve(st.n))
    ELSE TheOne({HalvedBy([n |-> h, k |-> st.k - st.k \div 2]) :
                    h \in {HalvedBy([n |-> st.n, k |-> st.k \div 2])}})

RECURSIVE Shifted(_)
Shifted(st) ==
    IF st.k = 0 THEN Trim(st.n)
    ELSE IF st.k = 1 THEN Trim(Double(st.n))
    ELSE TheOne({Shifted([n |-> d, k |-> st.k - st.k \div 2]) :
                    d \in {Shifted([n |-> st.n, k |-> st.k \div 2])}})

\* a <= b, for a and b without zeros in front.
NumAtMost(a, b) == a = b \/ NumLess(a, b)

\* The number of bits of n, the number of powers of two that are at most n.
\* For n of d digits, 10^(d-1) <= n < 10^d, and with 3.321 < log2(10) < 3.322
\* the powers below 2^low are at most n and the one after 2^high is above n.
BitLen(n) ==
    IF Trim(n) = <<>> THEN 0
    ELSE TheOne({low + Cardinality({j \in 0..(high - low) :
                         NumAtMost(Shifted([n |-> power, k |-> j]), Trim(n))}) :
                    low \in {((Len(Trim(n)) - 1) * 3321) \div 1000},
                    high \in {(Len(Trim(n)) * 3322) \div 1000},
                    power \in {Shifted([n |-> <<1>>,
                                        k |-> ((Len(Trim(n)) - 1) * 3321) \div 1000])}})

\* g * 2^k compared with 10^digits: "less", "equal" or "greater".
AgainstTen(g, k, digits) ==
    TheOne({IF Len(p) <= digits THEN "less"
            ELSE IF Len(p) = digits + 1 /\ p[1] = 1 /\ \A i \in 2..Len(p) : p[i] = 0
            THEN "equal"
            ELSE "greater" :
               p \in {Shifted([n |-> g, k |-> k])}})

\* int(float) of a number below 2^53 with the integer part int and the
\* digits frac after the point: int, or int + 1 where the number is at
\* least as near to int + 1 as to the double below it.  With k + 1 the
\* number of bits of int, that double is int + 1 - 2^(k-52), and the number
\* goes up when 1 - 0.frac is less than 2^(k-53); at a tie it goes to the
\* double with the even last bit, which is int + 1 unless int has 53 bits and
\* is even.
SmallToDouble(int, frac) ==
    IF Trim(frac) = <<>> THEN int
    ELSE TheOne({IF side = "less" \/ (side = "equal" /\ (bits < 53 \/ IsOdd(int)))
                 THEN Trim(Succ(int))
                 ELSE int :
                    bits \in {BitLen(int)},
                    side \in {AgainstTen(TenComplement(frac), 54 - BitLen(int),
                                         Len(frac))}})

\* The 53 bits in front of a number n of 2^53 or more: q is n without its
\* last k bits, round the last bit taken away and sticky whether a bit
\* taken away before it was one.
TopBits(n) ==
    TheOne({TheOne({[q |-> Trim(Halve(r)), k |-> k, round |-> IsOdd(r),
                     sticky |-> Shifted([n |-> r, k |-> k - 1]) # Trim(n)] :
                       r \in {HalvedBy([n |-> n, k |-> k - 1])}}) :
               k \in {BitLen(n) - 53}})

\* The float is inf.
TooLarge == <<-1>>

\* int(float) of a number of 2^53 or more, with the integer part int and
\* frac the digits after the point: the 53 bits in front, rounded to the
\* nearest and at a tie to the even one, followed by k zero bits; TooLarge
\* from 2^1024 on.
LargeToDouble(int, frac) ==
    TheOne({TheOne({IF top.k > 971 \/ (top.k = 971 /\ m = Two53) THEN TooLarge
                    ELSE Shifted([n |-> m, k |-> top.k]) :
                       m \in {IF top.round
                                 /\ (top.sticky \/ Trim(frac) # <<>> \/ IsOdd(top.q))
                              THEN Trim(Succ(top.q)) ELSE Trim(top.q)}}) :
               top \in {TopBits(int)}})

\* The digits of int(float) for the decimal number with the integer part
\* int and the digits frac after the point.
IntOfDouble(int, frac) ==
    TheOne({IF NumLess(i, Two53) THEN SmallToDouble(i, f) ELSE LargeToDouble(i, f) :
               i \in {Trim(int)}, f \in {frac}})

\* The float of the number with the significant digits sig, count of them
\* before the point: a number of 310 digits or more before the point is
\* inf, one below 0.1 is 0.
FloatOfSignificant(neg, sig, count) ==
    IF sig = <<>> \/ count < 0
    THEN [kind |-> "finite", negative |-> neg, digits |-> <<"0">>]
    ELSE IF count > 309 THEN FloatInf(neg)
    ELSE TheOne({IF d = TooLarge THEN FloatInf(neg)
                 ELSE [kind |-> "finite", negative |-> neg,
                       digits |-> IF d = <<>> THEN <<"0">> ELSE CharsOf(d)] :
                    d \in {IntOfDouble(
                              NumOf([k \in 1..count |->
                                        IF k <= Len(sig) THEN sig[k] ELSE "0"]),
                              NumOf(SubSeq(sig, count + 1, Len(sig))))}})

\* The float of the decimal number with the digits int before the point, the
\* digits frac after it and the exponent exp: digits holds the digits of
\* int(float).
FloatOfDecimal(neg, int, frac, exp) ==
    TheOne({FloatOfSignificant(neg, sig,
                Len(int) + exp - (Len(int) + Len(frac) - Len(sig))) :
               sig \in {StripZeros(int \o frac)}})

\* The whitespace float() strips: U+0009..U+000D and U+0020, and the
\* whitespace beyond ASCII, which it reads as a space; U+001C..U+001F stay.
FloatSpace(c) == IsSpace(c) /\ c \notin {"", "", "", ""}

\* The text as float() parses it: without the whitespace around it, each
\* decimal digit as the ASCII digit of its value, and the capital letters of
\* "inf", "infinity", "nan" and the exponent in lower case.
FloatText(text) ==
    LET solid == {i \in 1..Len(text) : ~FloatSpace(text[i])}
        first == CHOOSE i \in solid : \A j \in solid : i <= j
        last  == CHOOSE i \in solid : \A j \in solid : j <= i
    IN  IF solid = {} THEN <<>>
        ELSE [k \in 1..(last - first + 1) |->
                 LET c == text[first + k - 1]
                 IN  IF IsDecimal(c) THEN DigitChars[DigitValue(c) + 1]
                     ELSE IF c \in {"E", "I", "N", "F", "T", "Y", "A"} THEN LowerOf[c]
                     ELSE c]

\* float() of a decimal number with the digits int and frac around its point
\* and the digits edigit of its exponent, None where a part is no run of
\* digits.
FloatOfDigits(neg, int, frac, edigit, eneg) ==
    IF int = None \/ frac = None \/ edigit = None \/ (int = <<>> /\ frac = <<>>)
    THEN ValueError
    ELSE FloatOfDecimal(neg, int, frac,
             IF eneg THEN 0 - ExponentValue(edigit) ELSE ExponentValue(edigit))

\* float() of a number with the parts mant before and after its point.
FloatOfMantissa(neg, mant, edigit, eneg) ==
    IF Len(mant) > 2 THEN ValueError
    ELSE TheOne({FloatOfDigits(neg, int, frac, edigit, eneg) :
                    int  \in {IF mant[1] = <<>> THEN <<>> ELSE DigitPart(mant[1])},
                    frac \in {IF Len(mant) < 2 \/ mant[2] = <<>> THEN <<>>
                              ELSE DigitPart(mant[2])}})

\* float() of a number with the parts before and after its "e".
FloatOfParts(neg, parts) ==
    LET esign == Len(parts) = 2 /\ parts[2] # <<>> /\ parts[2][1] \in {"+", "-"}
    IN  IF Len(parts) > 2 THEN ValueError
        ELSE TheOne({FloatOfMantissa(neg, mant, edigit, esign /\ parts[2][1] = "-") :
                        mant   \in {PartsAt(parts[1], ".")},
                        edigit \in {IF Len(parts) < 2 THEN <<"0">>
                                    ELSE DigitPart(IF esign THEN Tail(parts[2])
                                                   ELSE parts[2])}})

\* float() of the text s that FloatText returns.
FloatOfText(s) ==
    LET signed == s # <<>> /\ s[1] \in {"+", "-"}
        neg    == signed /\ s[1] = "-"
    IN  TheOne({IF body \in {<<"i","n","f">>, <<"i","n","f","i","n","i","t","y">>}
                THEN FloatInf(neg)
                ELSE IF body = <<"n","a","n">> THEN FloatNaN
                ELSE TheOne({FloatOfParts(neg, parts) :
                                parts \in {PartsAt(body, "e")}}) :
                   body \in {IF signed THEN Tail(s) ELSE s}})

\* float(text)
FloatOf(text) == TheOne({FloatOfText(s) : s \in {FloatText(text)}})

\* int(float(value)) raises OverflowError, which clean_org_number does not catch.
OverflowError == <<"OverflowError">>

\* import_customers.clean_org_number(value): str(int(float(value))); "" for
\* NaN and where float() or int() raises ValueError; OverflowError where
\* int() raises it.
clean_org_number(value) ==
    IF value = None THEN <<>>
    ELSE LET f == FloatOf(value)
         IN  IF f.kind \in {"ValueError", "nan"} THEN <<>>
             ELSE IF f.kind = "inf" THEN OverflowError
             ELSE IF f.negative /\ f.digits # <<"0">> THEN <<"-">> \o f.digits
             ELSE f.digits

\* The loop over the rows from row i on, seen_org_numbers being seen.  The
\* uuid of a customer is written as the position of its row.
RECURSIVE CustomersFrom(_, _, _)
CustomersFrom(rows, i, seen) ==
    IF i > Len(rows) THEN <<>>
    ELSE LET org_number == clean_org_number(rows[i].Org)
             customer   == [id |-> i, name |-> clean_string(rows[i].Kundenavn),
                            org_number |-> org_number]
         IN  IF org_number # <<>> /\ org_number \in seen
             THEN CustomersFrom(rows, i + 1, seen)
             ELSE (IF customer.name = <<>> THEN <<>> ELSE <<customer>>)
                  \o CustomersFrom(rows, i + 1,
                         IF org_number # <<>> THEN seen \cup {org_number} ELSE seen)

\* read_excel_customers(filepath) raises: clean_org_number raises
\* OverflowError on a row of the sheet.
ReadCustomersRaises(rows) ==
    \E i \in 1..Len(rows) : clean_org_number(rows[i].Org) = OverflowError

\* The list read_excel_customers(filepath) returns for a sheet of these rows,
\* on none of which clean_org_number raises.
read_excel_customers(rows) == CustomersFrom(rows, 1, {})

\* The cells of the model's sheets: org numbers written as digits, with
\* leading zero, as a float, with a fraction and with a sign; texts float()
\* does not take and takes for infinity; 45 in Persian digits; 2^53 and
\* 2^53 + 1, which are one float; a fraction and a power of ten that are
\* not a float; an empty cell.
OrgCells  == {None, <<"1","2","3">>, <<"0","1","2","3">>, <<"1","2","3",".","0">>,
              <<"4","5">>, <<"x">>, <<"1","2",".","5">>, <<"-","5">>, <<"i","n","f">>,
              <<"۴","۵">>,
              <<"9","0","0","7","1","9","9","2","5","4","7","4","0","9","9","2">>,
              <<"9","0","0","7","1","9","9","2","5","4","7","4","0","9","9","3">>,
              <<"0",".","9","9","9","9","9","9","9","9","9","9","9","9","9","9","9","9","9","9","9">>,
              <<"1","e","2","3">>}
NameCells == {None, <<"A">>, <<"B">>}

CustomerRows == {[Org |-> o, Kundenavn |-> n] : o \in OrgCells, n \in NameCells}

InitCustomers ==
    /\ pc = "sheet"
    /\ customer_rows = <<>> /\ read_customers = <<>>
    /\ NormIdle /\ ResIdle /\ ScoreIdle /\ AssignIdle /\ ImportIdle /\ ReportIdle
    /\ LoopIdle /\ ReadIdle /\ AgreeIdle

\* One more row of the sheet.
AppendCustomerRow(row) ==
    /\ pc = "sheet" /\ Len(customer_rows) < MaxCustomerRows
    /\ customer_rows' = Append(customer_rows, row)
    /\ UNCHANGED <<pc, read_customers, normVars, resVars, scoreVars, assignVars,
                   importVars, reportVars, loopVars, readVars, agreeVars>>

\* customers = read_excel_customers(args.excel_file); main has no handler
\* around the call, an exception of it ends the run with no list.
ReadExcelCustomers ==
    /\ pc = "sheet"
    /\ IF ReadCustomersRaises(customer_rows)
       THEN read_customers' = read_customers /\ pc' = "customers_raised"
       ELSE read_customers' = read_excel_customers(customer_rows)
            /\ pc' = "customers_read"
    /\ UNCHANGED <<customer_rows, normVars, resVars, scoreVars, assignVars,
                   importVars, reportVars, loopVars, readVars, agreeVars>>

NextCustomers ==
    \/ \E row \in CustomerRows : AppendCustomerRow(row)
    \/ ReadExcelCustomers

SpecCustomers == InitCustomers /\ [][NextCustomers]_vars

\* C27: no two customers read_excel_customers returns share a non-empty org
\* number, and every non-empty org number that stands on a row with a
\* non-empty name is the org number of a returned customer.
C27_FirstOccurrenceKept ==
    pc = "customers_read" =>
        /\ \A j, k \in 1..Len(read_customers) :
              (j # k /\ read_customers[j].org_number # <<>>)
                 => read_customers[j].org_number # read_customers[k].org_number
        /\ \A i \in 1..Len(customer_rows) :
              (/\ clean_org_number(customer_rows[i].Org) # <<>>
               /\ clean_string(customer_rows[i].Kundenavn) # <<>>)
                 => \E k \in 1..Len(read_customers) :
                        read_customers[k].org_number
                           = clean_org_number(customer_rows[i].Org)

\* ------------------------------------------- the transaction of the import
\* The rows of the offers table a committed run leaves: the rows it found,
\* less those of the import's company when --clear is given, and the rows of
\* the importable offers.
RowsAfterCommit ==
    (IF clear THEN {r \in ExistingOffers : r.company_id # DEFAULT_COMPANY_ID}
     ELSE ExistingOffers)
    \cup {[id |-> importable[i].id, company_id |-> DEFAULT_COMPANY_ID] :
             i \in 1..Len(importable)}

\* C24: in a run with --dry-run, with or without --clear, no step deletes or
\* inserts a row of the offers table, neither in the store nor in the open
\* transaction; no tuple is handed to the INSERT; and the run ends with a
\* rollback and the store as it was.
C24_DryRunChangesNothing ==
    /\ [][dry_run => (db_offers' = db_offers /\ tx_offers' = tx_offers)]_vars
    /\ [](dry_run => /\ inserted = <<>>
                     /\ db_offers = ExistingOffers /\ tx_offers = ExistingOffers
                     /\ pc \in {"ended", "failed"} => tx_state = "rolled_back")

\* A dry run with --clear that found a customer for an offer and ended.
C24_Witness ==
    /\ dry_run /\ clear /\ pc = "ended"
    /\ Len(importable) = 1 /\ Len(skipped) = 1
    /\ inserted = <<>> /\ tx_state = "rolled_back"
    /\ db_offers = ExistingOffers

\* C25: the store changes in one step only, the commit that ends a run which
\* is no dry run, after clear_offers, insert_offers and save_skipped_offers;
\* it then holds the rows the transaction made.  A run in which a step raised
\* has rolled back and left the store as it was, the rows of the import's
\* company included when --clear had deleted them in the transaction.
C25_AllOrNothing ==
    /\ [][db_offers' # db_offers =>
             /\ pc = "done" /\ pc' = "ended" /\ ~dry_run
             /\ db_offers' = tx_offers]_vars
    /\ [](pc = "failed" => /\ tx_state = "rolled_back"
                           /\ db_offers = ExistingOffers
                           /\ tx_offers = ExistingOffers)
    /\ []((pc = "ended" /\ ~dry_run) => /\ tx_state = "committed"
                                        /\ db_offers = RowsAfterCommit)
    /\ [](pc \notin {"ended", "failed"} => tx_state \in {"none", "open"})

\* A run with --clear that deleted, found a customer for an offer and failed
\* in the INSERT: the store holds the two rows it held.
C25_Witness ==
    /\ pc = "failed" /\ clear /\ ~dry_run
    /\ customer_cache_loaded /\ Len(importable) = 1 /\ inserted = <<>>
    /\ tx_state = "rolled_back"
    /\ db_offers = ExistingOffers

\* The normalized names of the customers a run loaded.
LoadedNames == {normalize_customer_name(fetched[j][2]) : j \in 1..Len(fetched)}

\* The normalized customer name of the offer with this id.
NameOfOffer(id) ==
    LET i == CHOOSE i \in 1..Len(offers) : offers[i].id = id
    IN  normalize_customer_name(offers[i].customer_name)

\* C28: no INSERT is emitted for an offer whose normalized customer name is
\* not among the loaded customers, neither by insert_offers nor in the file
\* of --output-sql.
C28_NoInsertForUnmatched ==
    /\ \A r \in 1..Len(inserted) : NameOfOffer(inserted[r].id) \in LoadedNames
    /\ \A r \in 1..Len(sql_inserts) : NameOfOffer(sql_inserts[r].id) \in LoadedNames

====
